---- MODULE Spec2Model ----
(***************************************************************************)
(* A model of RIDE's namespace resolution engine                           *)
(* (src/src/robotide/namespace/namespace.py).                              *)
(*                                                                         *)
(* Text (a Python str) is a sequence of one-character strings, so that     *)
(* normalisation, path handling, prefix tests and the BDD regular          *)
(* expression are computed character by character.  The empty text '' is   *)
(* <<>>.  A query of the namespace starts with one action; the walk over   *)
(* the Resource imports that it makes goes on one import at a step, with   *)
(* the call stack of the recursion in the state, and the step that         *)
(* returns from the outermost call finishes the query.                     *)
(***************************************************************************)
EXTENDS Integers, Sequences, FiniteSets, TLC

VARIABLES
    world,      \* the parsed datafiles and the collaborators' answers
    rcache,     \* Namespace.res_cache: [cache, py, parses]
    kwcache,    \* DatafileRetriever.keyword_cache (ExpiringCache)
    now,        \* the clock the ExpiringCache reads
    run,        \* the query that is being answered and where its walk stands
    last,       \* the last query answered: its arguments, its result, what it did
    prev        \* the query answered before the one that was started last

vars == <<world, rcache, kwcache, now, run, last, prev>>

----------------------------------------------------------------------------
(* Text *)

UpperChars ==
    <<"A","B","C","D","E","F","G","H","I","J","K","L","M",
      "N","O","P","Q","R","S","T","U","V","W","X","Y","Z">>

LowerChars ==
    <<"a","b","c","d","e","f","g","h","i","j","k","l","m",
      "n","o","p","q","r","s","t","u","v","w","x","y","z">>

\* str.lower() on one character
LowerChar(c) ==
    IF \E i \in 1..Len(UpperChars) : UpperChars[i] = c
    THEN LowerChars[CHOOSE i \in 1..Len(UpperChars) : UpperChars[i] = c]
    ELSE c

\* str.lower()
Lower(t) == [i \in 1..Len(t) |-> LowerChar(t[i])]

\* the characters str.split() and the regular expression's \s treat as space
IsSpace(c) == c \in {" ", "\t"}

\* the text without the characters of drop
Without(t, drop) == SelectSeq(t, LAMBDA c : c \notin drop)

\* robot.utils.normalizing.normalize(string, ignore): whitespace removed,
\* lower-cased, then every character of ignore removed.
NormalizeIgnoring(t, ignore) == Without(Lower(Without(t, {" ", "\t"})), ignore)

\* normalize(string) as namespace.py calls it, and NormalizedDict()'s key
Normalize(t) == NormalizeIgnoring(t, {})

\* the key of robot.variables.Variables, a NormalizedDict(ignore=['_'])
VarKey(t) == NormalizeIgnoring(t, {"_"})

\* str.startswith
StartsWith(t, p) == Len(p) <= Len(t) /\ SubSeq(t, 1, Len(p)) = p

\* the order of two characters in the character set (ASCII order)
CharOrder ==
    <<" ", "$", ".", "/", "0", "1", "2", "3", "@">> \o UpperChars
        \o <<"_">> \o LowerChars \o <<"{", "}">>

Ord(c) == CHOOSE i \in 1..Len(CharOrder) : CharOrder[i] = c

\* cmp(a, b) < 0 on str: at the first place where they differ, a has
\* ended or has the lesser character
TextLess(a, b) ==
    \E i \in 1..Len(b) :
        /\ i <= Len(a) + 1
        /\ SubSeq(a, 1, i - 1) = SubSeq(b, 1, i - 1)
        /\ i = Len(a) + 1 \/ Ord(a[i]) < Ord(b[i])

\* [x for x in s if x in keep]
Select(s, keep) == SelectSeq(s, LAMBDA x : x \in keep)

\* the numbers of S from the least to the greatest
Ascending(S) ==
    [k \in 1..Cardinality(S) |-> CHOOSE i \in S : Cardinality({j \in S : j < i}) = k - 1]

Range(s) == {s[i] : i \in 1..Len(s)}

----------------------------------------------------------------------------
(* Paths: os.path.join and os.path.normpath on POSIX *)

\* the parts of t between the places at (the place before its first
\* character and the one after its last among them)
Between(t, at) == [k \in 1..(Len(at) - 1) |-> SubSeq(t, at[k] + 1, at[k + 1] - 1)]

\* path.split('/')
SplitPath(t) ==
    Between(t, <<0>> \o Ascending({i \in 1..Len(t) : t[i] = "/"}) \o <<Len(t) + 1>>)

RECURSIVE JoinSegs(_)
JoinSegs(segs) ==
    IF segs = <<>> THEN <<>>
    ELSE IF Len(segs) = 1 THEN Head(segs)
    ELSE Head(segs) \o <<"/">> \o JoinSegs(Tail(segs))

\* normpath's loop over the components: "" and "." dropped, ".." pops a
\* component unless there is none to pop (kept on a relative path, dropped
\* at the root)
RECURSIVE NormSegs(_, _, _)
NormSegs(segs, acc, rooted) ==
    IF segs = <<>> THEN acc
    ELSE LET s == Head(segs) IN
         IF s = <<>> \/ s = <<".">> THEN NormSegs(Tail(segs), acc, rooted)
         ELSE IF s # <<".", ".">> THEN NormSegs(Tail(segs), Append(acc, s), rooted)
         ELSE IF acc # <<>> /\ acc[Len(acc)] # <<".", ".">>
              THEN NormSegs(Tail(segs), SubSeq(acc, 1, Len(acc) - 1), rooted)
         ELSE IF rooted THEN NormSegs(Tail(segs), acc, rooted)
         ELSE NormSegs(Tail(segs), Append(acc, s), rooted)

\* os.path.normpath(path)
Normpath(p) ==
    IF p = <<>> THEN <<".">>
    ELSE LET rooted == Head(p) = "/"
             body == JoinSegs(NormSegs(SplitPath(p), <<>>, rooted))
         IN  IF rooted THEN <<"/">> \o body
             ELSE IF body = <<>> THEN <<".">> ELSE body

\* os.path.join(a, b)
PathJoin(a, b) ==
    IF b # <<>> /\ Head(b) = "/" THEN b
    ELSE IF a = <<>> \/ a[Len(a)] = "/" THEN a \o b
    ELSE a \o <<"/">> \o b

----------------------------------------------------------------------------
(* The texts the datafiles and the queries are written with *)

T_d        == <<"d">>
T_lib      == <<"l","i","b">>
T_r1       == <<"r","1">>
T_r2       == <<"r","2">>
T_dot_r1   == <<".","/","r","1">>
T_up_d_r1  == <<".",".","/","d","/","r","1">>
T_bad      == <<"b","a","d">>
T_x_up_bad == <<"x","/",".",".","/","b","a","d">>
T_d_bad    == <<"d","/","b","a","d">>
T_d_r2     == <<"d","/","r","2">>
T_d_r1     == <<"d","/","r","1">>
T_lib_r2   == <<"l","i","b","/","r","2">>
T_d_suite  == <<"d","/","s">>
T_d_top    == <<"d">>
T_vf       == <<"v","f">>
T_vbad     == <<"v","b">>
T_d_vf     == <<"d","/","v","f">>
T_L1       == <<"L","1">>
T_L2       == <<"L","2">>
T_Foo      == <<"F","o","o">>
T_foo      == <<"f","o","o">>
T_r1_Foo   == <<"r","1",".","F","o","o">>
T_s_Foo    == <<"s",".","F","o","o">>
T_s_foo    == <<"s",".","f","o","o">>
T_L1_Foo   == <<"L","1",".","F","o","o">>
T_L1_LK    == <<"L","1",".","L","K">>
T_r1_K1    == <<"r","1",".","K","1">>
T_BuiltIn_Log == <<"B","u","i","l","t","I","n",".","L","o","g">>
T_Bar      == <<"B","a","r">>
T_K1       == <<"K","1">>
T_K2       == <<"K","2">>
T_LK       == <<"L","K">>
T_X        == <<"$","{","X","}">>
T_x        == <<"$","{","x","}">>
T_U        == <<"$","{","U","}">>
T_Q        == <<"$","{","Q","}">>
T_B        == <<"$","{","B","}">>
T_P        == <<"$","{","P","}">>
T_SPACE    == <<"$","{","S","P","A","C","E","}">>
T_EMPTY    == <<"$","{","E","M","P","T","Y","}">>
T_SEP      == <<"$","{","/","}">>
T_noVar    == <<"X","1">>
T_1        == <<"1">>
T_2        == <<"2">>
T_3        == <<"3">>
T_H1       == <<"H","1">>
T_arg      == <<"$","{","a","r","g","}">>
T_list     == <<"@","{","l","}">>
T_MyKeyword  == <<"M","y"," ","K","e","y","w","o","r","d">>
T_my_keyword == <<"m","y","_","k","e","y","w","o","r","d">>
T_MYKEYWORD  == <<"M","Y","K","E","Y","W","O","R","D">>
T_MyK        == <<"M","y"," ","K">>
T_my_k       == <<"m","y","_","k">>
T_MYK        == <<"M","Y","K">>
T_Given    == <<"G","i","v","e","n">>
T_GivenLogin == <<"G","i","v","e","n"," ","L","o","g","i","n">>
T_givenlogin == <<"g","i","v","e","n"," ","l","o","g","i","n">>
T_WhenLogin  == <<" ","W","H","E","N"," ","L","o","g","i","n">>
T_Login    == <<"L","o","g","i","n">>
T_Logon    == <<"L","o","g","o","n">>
T_Log      == <<"L","o","g">>
T_BuiltIn  == <<"B","u","i","l","t","I","n">>
T_Global   == <<"G","l","o","b","a","l">>
T_Argument == <<"A","r","g","u","m","e","n","t">>

\* a function with no argument yet: an empty dict
EmptyFn == [x \in {} |-> x]

\* None where a path is expected (falsy, like '')
NoPath == <<>>

\* None where a parsed resource is expected
NoRes == [path |-> <<>>, file |-> "None"]

----------------------------------------------------------------------------
(* The collaborators: the file system, the search path, the libraries *)

FileIds == {"top", "suite", "r1", "r2"}

\* where the resource files are: ResourceFile(path) parses these and raises
\* on every other path
ResourcePath(f) == IF f = "r1" THEN T_d_r1 ELSE IF f = "r2" THEN T_lib_r2 ELSE NoPath

ResourceIds == {"r1", "r2"}

\* the resource file at a normalized path, NoRes when there is none
ResourceFileAt(normalized) ==
    IF \E f \in ResourceIds : ResourcePath(f) = normalized
    THEN [path |-> normalized,
          file |-> CHOOSE f \in ResourceIds : ResourcePath(f) = normalized]
    ELSE NoRes

\* ResourceFile(path): the parsed resource, or NoRes when the constructor raises
ParseResourceFile(path) == ResourceFileAt(Normpath(path))

\* utils.find_from_pythonpath(name): r2 is on the search path, nothing else is
FindFromPythonpath(name) == IF name = T_r2 THEN T_lib_r2 ELSE NoPath

\* a KeywordInfo (robotide.spec.iteminfo): name, source and the variant
KeywordInfo(name, source, kind) == [name |-> name, source |-> source, kind |-> kind]

NoKw == KeywordInfo(<<>>, <<>>, "None")

\* ItemInfo.longname: '%s.%s' % (source, name)
Longname(kw) == kw.source \o <<".">> \o kw.name

\* ItemInfo.__eq__: two keyword infos are equal when their names are
KwEq(a, b) == a.name = b.name

\* ItemInfo.__cmp__ < 0: by name
KwLess(a, b) == TextLess(a.name, b.name)

\* the keywords of the libraries
LibraryKeywordNames(name) ==
    IF name = T_L1 THEN <<T_Foo, T_LK>>
    ELSE IF name = T_L2 THEN <<T_K1>>
    ELSE <<>>

\* LibraryCache.get_library_keywords(name, args)
GetLibraryKeywords(name, args) ==
    [i \in 1..Len(LibraryKeywordNames(name)) |->
        KeywordInfo(LibraryKeywordNames(name)[i], name, "library")]

\* the variable file at a normalized path: its variables, or a DataError
\* (ok FALSE); vars of a file that fails are the ones it sets before it
\* fails
VariableFileAt(normalized) ==
    IF normalized = T_d_vf
    THEN [ok |-> TRUE, vars |-> <<[name |-> T_X, value |-> T_3]>>]
    ELSE [ok |-> FALSE, vars |-> <<[name |-> T_X, value |-> T_2],
                                   [name |-> T_B, value |-> T_2]>>]

\* robot.variables.Variables.set_from_file(path, args) on a fresh store
VariableFile(path) == VariableFileAt(Normpath(path))

----------------------------------------------------------------------------
(* ResourceCache *)

\* ResourceCache.__init__; parses counts the ResourceFile(path) calls per
\* normalized path and lookups the find_from_pythonpath calls per name
NewResourceCache == [cache |-> EmptyFn, py |-> EmptyFn, parses |-> EmptyFn, lookups |-> EmptyFn]

Count(f, k) == IF k \in DOMAIN f THEN f[k] ELSE 0

Put(f, k, v) == (k :> v) @@ f

\* the parse counted, and its result stored only when the file was parsed
StoreIfParsed(rc, normalized, parsed) ==
    [rc |-> [rc EXCEPT !.cache = IF parsed = NoRes THEN rc.cache
                                 ELSE Put(rc.cache, normalized, parsed),
                       !.parses = Put(rc.parses, normalized, Count(rc.parses, normalized) + 1)],
     res |-> parsed]

\* self.cache[normalized] = ResourceFile(path), or None when it raises
StoreParsed(rc, normalized, parsed) ==
    [rc |-> [rc EXCEPT !.cache = Put(rc.cache, normalized, parsed),
                       !.parses = Put(rc.parses, normalized, Count(rc.parses, normalized) + 1)],
     res |-> parsed]

\* the cache keyed by the path as written
GetResourceByPathAsWritten(rc, path) ==
    IF path \notin DOMAIN rc.cache
    THEN StoreParsed(rc, path, ParseResourceFile(path))
    ELSE [rc |-> rc, res |-> rc.cache[path]]

\* ResourceCache._get_resource(path)
GetResourceByPath(rc, path) ==
    LET Cached(normalized) ==
            IF normalized \notin DOMAIN rc.cache
            THEN StoreParsed(rc, normalized, ParseResourceFile(path))
            ELSE [rc |-> rc, res |-> rc.cache[normalized]]
    IN  Cached(Normpath(path))

\* self.python_path_cache[name] = utils.find_from_pythonpath(name)
StorePythonPath(rc, name, found) ==
    [rc |-> [rc EXCEPT !.py = Put(rc.py, name, found),
                       !.lookups = Put(rc.lookups, name, Count(rc.lookups, name) + 1)],
     path |-> found]

\* find_from_pythonpath called whether the name is in python_path_cache or not
GetPythonPathAnew(rc, name) == StorePythonPath(rc, name, FindFromPythonpath(name))

\* ResourceCache._get_python_path(name)
GetPythonPath(rc, name) ==
    IF name \in DOMAIN rc.py
    THEN [rc |-> rc, path |-> rc.py[name]]
    ELSE StorePythonPath(rc, name, FindFromPythonpath(name))

\* ResourceCache.get_resource(directory, name)
GetResource(rc, directory, name) ==
    LET FromPythonPath(pp) ==
            IF pp.path # NoPath THEN GetResourceByPath(pp.rc, pp.path)
            ELSE [rc |-> pp.rc, res |-> NoRes]
        OrFromPythonPath(direct) ==
            IF direct.res # NoRes THEN direct
            ELSE FromPythonPath(GetPythonPath(direct.rc, name))
    IN  OrFromPythonPath(
            GetResourceByPath(rc, IF directory # <<>> THEN PathJoin(directory, name)
                                  ELSE name))

----------------------------------------------------------------------------
(* _VariableStash *)

\* _VariableStash.global_variables: the entries whose value is a str that
\* the datafiles of this model can meet (the table has 28 entries, all set
\* the same way)
GlobalVariables ==
    << [name |-> T_SPACE, value |-> <<" ">>],
       [name |-> T_EMPTY, value |-> <<>>],
       [name |-> T_SEP,   value |-> <<"/">>] >>

\* robot's is_var(string)
IsVar(t) ==
    /\ Len(t) > 3
    /\ t[1] \in {"$", "@"}
    /\ t[2] = "{"
    /\ t[Len(t)] = "}"
    /\ \A i \in 1..Len(t) : (t[i] = "{" => i = 2) /\ (t[i] = "}" => i = Len(t))

\* self._vars[name] = value; self._sources[name] = source, k the key of name.
\* vals is the NormalizedDict (normalized key -> the key as first written
\* and the value), sources the plain dict keyed by the name as written.
StashSetAt(env, k, name, value, source) ==
    [env EXCEPT !.vals = Put(env.vals, k,
                             [name |-> IF k \in DOMAIN env.vals THEN env.vals[k].name
                                       ELSE name,
                              value |-> value]),
                !.sources = Put(env.sources, name, source)]

\* _VariableStash.set(name, value, source)
StashSet(env, name, value, source) == StashSetAt(env, VarKey(name), name, value, source)

RECURSIVE SetAll(_, _, _)
SetAll(env, bindings, source) ==
    IF bindings = <<>> THEN env
    ELSE SetAll(StashSet(env, Head(bindings).name, Head(bindings).value, source),
                Tail(bindings), source)

\* _VariableStash.__init__.  forced and clobbered observe the writes and
\* are read by nothing in the program: forced holds the keys written by
\* set_from_file or by the DataError branch of set_from_variable_table,
\* clobbered the keys whose binding a set_from_variable_table call changed.
NewStash ==
    SetAll([vals |-> EmptyFn, sources |-> EmptyFn, forced |-> {}, clobbered |-> {}],
           GlobalVariables, T_Global)

\* self._vars.has_key(name)
HasKey(env, name) == VarKey(name) \in DOMAIN env.vals

\* what _VariableStash.__iter__ yields for one key: VariableInfo(name, value, source)
VariableInfo(env, k) ==
    [name |-> env.vals[k].name, value |-> env.vals[k].value,
     source |-> env.sources[env.vals[k].name]]

\* _VariableStash.__iter__
VariableInfos(env) == {VariableInfo(env, k) : k \in DOMAIN env.vals}

\* the first index from i on where t has character c, 0 when there is none
IndexFrom(t, c, i) ==
    IF \E j \in i..Len(t) : t[j] = c
    THEN CHOOSE j \in i..Len(t) : t[j] = c /\ \A k \in i..(j - 1) : t[k] # c
    ELSE 0

\* the places where a ${...} starts in t
VarStarts(t) ==
    {i \in 1..(Len(t) - 1) : t[i] = "$" /\ t[i + 1] = "{" /\ IndexFrom(t, "}", i) > 0}

\* the text before a ${name}, its value when it is bound and the name as
\* written when it is not, and the rest with its variables replaced
SubstituteOne(env, before, name, rest) ==
    IF HasKey(env, name)
    THEN [ok |-> rest.ok, text |-> before \o env.vals[VarKey(name)].value \o rest.text]
    ELSE [ok |-> FALSE, text |-> before \o name \o rest.text]

\* Variables.replace_string(text, ignore_errors=True): every ${name} that is
\* bound is replaced by its value, an unbound one is left as written; ok
\* says that none was unbound (replace_scalar raises DataError otherwise)
RECURSIVE Substitute(_, _)
Substitute(env, t) ==
    LET Name(i, j) ==
            SubstituteOne(env, SubSeq(t, 1, i - 1), SubSeq(t, i, j),
                          Substitute(env, SubSeq(t, j + 1, Len(t))))
        First(i) == Name(i, IndexFrom(t, "}", i))
    IN  IF VarStarts(t) = {} THEN [ok |-> TRUE, text |-> t]
        ELSE First(CHOOSE i \in VarStarts(t) : \A j \in VarStarts(t) : i <= j)

\* _VariableStash.replace_variables(value)
ReplaceVariables(env, t) == Substitute(env, t).text

\* [ctx.vars.replace_variables(a) for a in imp.args]
ReplaceVariablesInArgs(env, args) ==
    [i \in 1..Len(args) |-> ReplaceVariables(env, args[i])]

\* Variables._get_var_table_name_and_value(name, value): DataError (ok
\* FALSE) for a name that is no variable or a value that refers to an
\* unbound variable
GetVarTableNameAndValue(env, name, value) ==
    LET Replaced(v) == [ok |-> IsVar(name) /\ v.ok, name |-> name, value |-> v.text]
    IN  Replaced(Substitute(env, value))

\* the binding of a key as __iter__ shows it, NoBinding when unbound
NoBinding == [name |-> <<>>, value |-> <<>>, source |-> <<"-">>]

Binding(env, k) == IF k \in DOMAIN env.vals THEN VariableInfo(env, k) ELSE NoBinding

\* the body of the try statement of set_from_variable_table and its except
\* clause, r being what _get_var_table_name_and_value gave
SetOrSetEmpty(env, variable, r, source) ==
    IF r.ok
    THEN IF ~HasKey(env, r.name) THEN StashSet(env, r.name, r.value, source)
         ELSE env
    ELSE IF IsVar(variable.name)
         THEN [StashSet(env, variable.name, <<>>, source)
                   EXCEPT !.forced = env.forced \cup {VarKey(variable.name)}]
         ELSE env

\* the stash e that the entry left of env, the key k noted in clobbered
\* when it was bound in env and is bound differently in e
NoteClobbered(env, e, k) ==
    IF k \in DOMAIN env.vals /\ Binding(e, k) # Binding(env, k)
    THEN [e EXCEPT !.clobbered = e.clobbered \cup {k}]
    ELSE e

\* one iteration of the loop of set_from_variable_table
SetFromVariableTableEntry(env, variable, source) ==
    NoteClobbered(env,
                  SetOrSetEmpty(env, variable,
                                GetVarTableNameAndValue(env, variable.name, variable.value),
                                source),
                  VarKey(variable.name))

\* _VariableStash.set_from_variable_table(variable_table)
RECURSIVE SetFromVariableTable(_, _, _)
SetFromVariableTable(env, table, source) ==
    IF table = <<>> THEN env
    ELSE SetFromVariableTable(SetFromVariableTableEntry(env, Head(table), source),
                              Tail(table), source)

\* what the file set before it failed is set too
SetFromLoadedSoFar(env, temp, varfile_path) ==
    [ok |-> temp.ok, env |-> SetAll(env, temp.vars, varfile_path)]

\* the loop of set_from_file over temp.items()
SetFromLoaded(env, temp, varfile_path) ==
    IF ~temp.ok THEN [ok |-> FALSE, env |-> env]
    ELSE [ok |-> TRUE,
          env |-> [SetAll(env, temp.vars, varfile_path)
                      EXCEPT !.forced = env.forced \cup
                                 {VarKey(temp.vars[i].name) : i \in 1..Len(temp.vars)}]]

\* _VariableStash.set_from_file(varfile_path, args): ok FALSE is the
\* DataError of the loader, raised before anything is set
SetFromFile(env, varfile_path, args) ==
    SetFromLoaded(env, VariableFile(varfile_path), varfile_path)

----------------------------------------------------------------------------
(* RetrieverContext *)

\* the deepest nesting of calls (the datafile asked for and the resources
\* imported below it) that a walk is followed to; a walk that would go
\* deeper is marked diverged and goes no further
MaxDepth == 3

\* a datafile: name, source, directory, keywords (names), vartable (name and
\* value cells), imports (kind, name, args, line: its place in the setting
\* table), children
File(f) == world.files[f]

\* RetrieverContext.__init__.  trace lists the resources in the order they
\* were added to parsed since the last reset, passes the traces of the
\* passes before it; nothing in the program reads them.
NewContext == [vars |-> NewStash, parsed |-> {}, trace |-> <<>>, passes |-> <<>>]

\* the variables forgotten with the parsed resources
AllowWithNewStash(c) ==
    [c EXCEPT !.vars = NewStash, !.parsed = {}, !.passes = Append(c.passes, c.trace),
              !.trace = <<>>]

\* RetrieverContext.allow_going_through_resources_again
AllowGoingThroughResourcesAgain(c) ==
    [c EXCEPT !.parsed = {}, !.passes = Append(c.passes, c.trace), !.trace = <<>>]

\* ctx.parsed.add(res)
MarkParsed(c, res) ==
    [c EXCEPT !.parsed = c.parsed \cup {res}, !.trace = Append(c.trace, res)]

\* the traces of all the passes of a context
Passes(c) == Append(c.passes, c.trace)

----------------------------------------------------------------------------
(* DatafileRetriever: what is done at one datafile *)

\* DatafileRetriever._collect_import_of_type
CollectImportOfType(f, kind) ==
    Select(File(f).imports, {imp \in Range(File(f).imports) : imp.kind = kind})

\* the test of _collect_each_res_import without "res not in ctx.parsed"
ShouldCollectAny(c, res) == res # NoRes

\* the test of _collect_each_res_import: res and res not in ctx.parsed
ShouldCollect(c, res) == res # NoRes /\ res \notin c.parsed

\* the test of _res_kw_recursive_getter without "res in ctx.parsed"
ShouldSkipNone(c, res) == res = NoRes

\* the test of _res_kw_recursive_getter: not res or res in ctx.parsed
ShouldSkip(c, res) == res = NoRes \/ res \in c.parsed

\* self.res_cache.get_resource(imp.directory, resolved_name) for an import
\* of datafile f: [rc, res]
ResolveImport(rc, imp, f, c) ==
    GetResource(rc, File(f).directory, ReplaceVariables(c.vars, imp.name))

\* ctx.vars.set_from_variable_table(datafile.variable_table)
SetFromVariableTableOf(f, c) ==
    [c EXCEPT !.vars = SetFromVariableTable(c.vars, File(f).vartable, File(f).source)]

\* DatafileRetriever._collect_vars_from_variable_files, imps the Variables
\* imports that are left; a DataError of set_from_file is passed over
RECURSIVE CollectVarsFromVariableFiles(_, _, _)
CollectVarsFromVariableFiles(imps, f, c) ==
    IF imps = <<>> THEN c
    ELSE CollectVarsFromVariableFiles(
             Tail(imps), f,
             [c EXCEPT !.vars =
                 SetFromFile(c.vars,
                             PathJoin(File(f).directory,
                                      ReplaceVariables(c.vars, Head(imps).name)),
                             ReplaceVariablesInArgs(c.vars, Head(imps).args)).env])

\* what a datafile goes through before the loop over its Resource imports:
\* for _var_collector ("var") the two statements of _get_vars_recursive
\* and the set_from_variable_table of _collect_each_res_import, for
\* _add_resource ("res") only the latter
EnterDatafile(collector, f, c) ==
    SetFromVariableTableOf(f,
        IF collector = "var"
        THEN CollectVarsFromVariableFiles(CollectImportOfType(f, "Variables"), f,
                                          SetFromVariableTableOf(f, c))
        ELSE c)

\* what _add_resource adds to items before it goes into the resource
AddResource(collector, items, res) ==
    IF collector = "res" THEN items \cup {res} ELSE items

\* resources.sort(key=operator.attrgetter('name')) on a set of resources
RECURSIVE SortedByName(_)
SortedByName(S) ==
    LET Least(m) == <<m>> \o SortedByName(S \ {m})
    IN  IF S = {} THEN <<>>
        ELSE Least(CHOOSE x \in S :
                       \A y \in S : ~TextLess(File(y.file).name, File(x.file).name))

\* DatafileRetriever._get_datafile_keywords: TestCaseUserKeywordInfo each
GetDatafileKeywords(f) ==
    [i \in 1..Len(File(f).keywords) |->
        KeywordInfo(File(f).keywords[i], File(f).name, "local")]

\* [ResourceseUserKeywordInfo(kw) for kw in res.keywords]
ResourceUserKeywords(f) ==
    [i \in 1..Len(File(f).keywords) |->
        KeywordInfo(File(f).keywords[i], File(f).name, "resource")]

\* DatafileRetriever._lib_kw_getter(imp, ctx)
LibKwGetter(imp, c) ==
    GetLibraryKeywords(ReplaceVariables(c.vars, imp.name),
                       ReplaceVariablesInArgs(c.vars, imp.args))

\* kws.extend(got) for the import at a line of the setting table; via
\* gives, for every keyword, the line of the import of the datafile it
\* came by
Extend(acc, got, line) ==
    [kws |-> acc.kws \o got, via |-> acc.via \o [i \in 1..Len(got) |-> line]]

NoKeywords == [kws |-> <<>>, via |-> <<>>]

\* the loop of _collect_kws_from_imports with _lib_kw_getter
RECURSIVE LibraryKeywordsLoop(_, _, _)
LibraryKeywordsLoop(imps, c, acc) ==
    IF imps = <<>> THEN acc
    ELSE LibraryKeywordsLoop(Tail(imps), c,
                             Extend(acc, LibKwGetter(Head(imps), c), Head(imps).line))

\* DatafileRetriever._get_imported_library_keywords(datafile, ctx)
GetImportedLibraryKeywords(f, c) ==
    LibraryKeywordsLoop(CollectImportOfType(f, "Library"), c, NoKeywords)

\* the keywords of the libraries of resource rf and of its Resource
\* imports put before the resource's own
ImportedThenOwn(rf, kws, c) ==
    (GetImportedLibraryKeywords(rf, c).kws \o kws) \o ResourceUserKeywords(rf)

\* the last two statements of _res_kw_recursive_getter for resource rf:
\* kws.extend(library keywords of rf), then the resource's own keywords
\* before kws, the keywords of its Resource imports
OwnThenImported(rf, kws, c) ==
    ResourceUserKeywords(rf) \o (kws \o GetImportedLibraryKeywords(rf, c).kws)

\* "k not in result_in_order" taken for true
NotInAny(k, result_in_order) == TRUE

\* k not in result_in_order
NotIn(k, result_in_order) ==
    \A i \in 1..Len(result_in_order) : ~KwEq(result_in_order[i], k)

\* the loop of get_keywords_from that builds result_in_order
RECURSIVE ResultInOrder(_, _)
ResultInOrder(kws, result_in_order) ==
    IF kws = <<>> THEN result_in_order
    ELSE ResultInOrder(Tail(kws),
                       IF NotIn(Head(kws), result_in_order)
                       THEN Append(result_in_order, Head(kws))
                       ELSE result_in_order)

\* the keywords of the resources put before the keywords of the libraries
ConcatResourcesFirst(local, libs, ress) == local \o ress \o libs

\* kws = datafile keywords + library keywords + resource keywords
ConcatKeywords(local, libs, ress) == local \o libs \o ress

----------------------------------------------------------------------------
(* DatafileRetriever: the walk over the Resource imports *)

\* no query is being answered
Idle == [op |-> "idle"]

\* the last query when there is none
NoQuery == [op |-> "none"]

\* a call of _collect_each_res_import or of _res_kw_recursive_getter (of
\* _collect_kws_from_imports for the datafile asked for) on datafile f:
\* imps are the Resource imports its loop has not come to, line is the
\* line of the import it is at, kws and via what its kws list holds
Frame(f) ==
    [f |-> f, imps |-> CollectImportOfType(f, "Resource"), line |-> 0,
     kws |-> <<>>, via |-> <<>>]

Top(stack) == stack[Len(stack)]

Below(stack) == SubSeq(stack, 1, Len(stack) - 1)

\* the frame whose loop takes its next import
Taken(fr) == [fr EXCEPT !.line = Head(fr.imps).line, !.imps = Tail(fr.imps)]

\* the stack when the loop of its top frame takes its next import
TakeImport(stack) == Append(Below(stack), Taken(Top(stack)))

\* the walk begun with the variables the query before it was left with
NewWalkWithLastVariables(task, caller, f, pass, todo) ==
    [op |-> "walk", task |-> task, caller |-> caller, df |-> f, pass |-> pass,
     stack |-> <<Frame(f)>>,
     ctx |-> EnterDatafile(pass, f,
                           IF last.op \in {"variables", "keywords"}
                           THEN [NewContext EXCEPT !.vars = last.vars]
                           ELSE NewContext),
     diverged |-> FALSE, local |-> <<>>, libs |-> NoKeywords, ress |-> NoKeywords,
     items |-> {}, todo |-> todo, walks |-> <<>>]

\* a walk for a query: task is what is collected ("keywords", "variables",
\* "resources"), caller the operation of Namespace that waits for it, df
\* the datafile asked for, pass the collector at work ("var":
\* _var_collector, "kw": _res_kw_recursive_getter, "res": _add_resource),
\* stack the calls that have not returned, ctx the RetrieverContext, local
\* and libs the first two summands of kws in get_keywords_from, ress the
\* third, items the set of _add_resource, todo the datafiles whose
\* get_resources_from is to come, walks the traces of the contexts of the
\* ones that are done
NewWalk(task, caller, f, pass, todo) ==
    [op |-> "walk", task |-> task, caller |-> caller, df |-> f, pass |-> pass,
     stack |-> <<Frame(f)>>, ctx |-> EnterDatafile(pass, f, NewContext),
     diverged |-> FALSE, local |-> <<>>, libs |-> NoKeywords, ress |-> NoKeywords,
     items |-> {}, todo |-> todo, walks |-> <<>>]

\* get_variables_from(datafile) up to the loop of _collect_each_res_import
BeginVariables(caller, f) == NewWalk("variables", caller, f, "var", <<>>)

\* get_keywords_from(datafile) with the keywords collected before the
\* Resource imports are gone through for their variables
KeywordsAtOnce(r) ==
    [r EXCEPT !.pass = "kw",
              !.ctx = AllowGoingThroughResourcesAgain(r.ctx),
              !.local = GetDatafileKeywords(r.df),
              !.libs = GetImportedLibraryKeywords(r.df, r.ctx)]

BeginKeywordsAtOnce(caller, f) == KeywordsAtOnce(NewWalk("keywords", caller, f, "var", <<>>))

\* get_keywords_from(datafile) up to the loop of _collect_each_res_import
\* in its _get_vars_recursive
BeginKeywords(caller, f) == NewWalk("keywords", caller, f, "var", <<>>)

\* get_resources_from(datafile) up to the loop of _collect_each_res_import
BeginResources(caller, f) == NewWalk("resources", caller, f, "res", <<f>>)

\* the loop left at the import that was passed over
SkipRest(r) ==
    [r EXCEPT !.stack = Append(Below(r.stack), [Taken(Top(r.stack)) EXCEPT !.imps = <<>>])]

\* the loop goes on to the next import: res was None or parsed already
Skip(r) == [r EXCEPT !.stack = TakeImport(r.stack)]

\* the call into resource res with context c: a new frame, unless the
\* nesting is as deep as the model follows
Push(r, res, c) ==
    IF Len(r.stack) >= MaxDepth
    THEN [r EXCEPT !.ctx = c, !.diverged = TRUE]
    ELSE [r EXCEPT !.ctx = c, !.stack = Append(TakeImport(r.stack), Frame(res.file))]

\* the body of the loop of _collect_each_res_import ("var", "res") or the
\* first statements of _res_kw_recursive_getter ("kw") for the resource res
\* that the import at hand resolved to
Visit(r, res) ==
    IF r.pass = "kw"
    THEN IF ShouldSkip(r.ctx, res) THEN Skip(r)
         ELSE Push(r, res, SetFromVariableTableOf(res.file, MarkParsed(r.ctx, res)))
    ELSE IF ~ShouldCollect(r.ctx, res) THEN Skip(r)
         ELSE Push([r EXCEPT !.items = AddResource(r.pass, r.items, res)], res,
                   EnterDatafile(r.pass, res.file, MarkParsed(r.ctx, res)))

\* kws.extend(got) in the frame fr, for the import its loop is at
ExtendFrame(fr, got) ==
    [fr EXCEPT !.kws = fr.kws \o got,
               !.via = fr.via \o [i \in 1..Len(got) |-> fr.line]]

\* the call of the top frame returns to the one below it; in the keyword
\* pass what it returns is added to the kws of that one
Return(r) ==
    IF r.pass = "kw"
    THEN [r EXCEPT !.stack =
             Append(Below(Below(r.stack)),
                    ExtendFrame(Top(Below(r.stack)),
                                OwnThenImported(Top(r.stack).f, Top(r.stack).kws, r.ctx)))]
    ELSE [r EXCEPT !.stack = Below(r.stack)]

\* get_keywords_from after _get_vars_recursive has returned:
\* allow_going_through_resources_again, the datafile's and the libraries'
\* keywords, and the loop of _collect_kws_from_imports over the Resource
\* imports to come
KeywordPass(r) ==
    [r EXCEPT !.pass = "kw",
              !.ctx = AllowGoingThroughResourcesAgain(r.ctx),
              !.local = GetDatafileKeywords(r.df),
              !.libs = GetImportedLibraryKeywords(r.df, r.ctx),
              !.stack = <<Frame(r.df)>>]

\* the walk with nothing left to do
Over(r) == [r EXCEPT !.stack = <<>>]

\* the children gone through with the context of the datafile before them
ChildrenNextInContext(r, todo) ==
    IF todo = <<>>
    THEN [r EXCEPT !.walks = Append(r.walks, r.ctx.trace), !.todo = <<>>, !.stack = <<>>]
    ELSE [r EXCEPT !.walks = Append(r.walks, r.ctx.trace),
                   !.todo = todo,
                   !.ctx = EnterDatafile("res", Head(todo), r.ctx),
                   !.stack = <<Frame(Head(todo))>>]

\* _get_resources_recursive when _collect_each_res_import has returned for
\* the first datafile of todo: its children come next, each by
\* get_resources_from with a RetrieverContext of its own, then the rest
ChildrenNext(r, todo) ==
    IF todo = <<>>
    THEN Over([r EXCEPT !.walks = Append(r.walks, r.ctx.trace), !.todo = <<>>])
    ELSE [r EXCEPT !.walks = Append(r.walks, r.ctx.trace),
                   !.todo = todo,
                   !.ctx = EnterDatafile("res", Head(todo), NewContext),
                   !.stack = <<Frame(Head(todo))>>]

\* the loop over the Resource imports of the datafile asked for is over
LoopOver(r) ==
    IF r.pass = "var" /\ r.task = "keywords" THEN KeywordPass(r)
    ELSE IF r.pass = "res" THEN ChildrenNext(r, File(Head(r.todo)).children \o Tail(r.todo))
    ELSE IF r.pass = "kw"
    THEN Over([r EXCEPT !.ress = [kws |-> Top(r.stack).kws, via |-> Top(r.stack).via]])
    ELSE Over(r)

\* the walk brought on to its next import: every loop that has no import
\* left returns
RECURSIVE Settle(_)
Settle(r) ==
    IF r.diverged \/ r.stack = <<>> THEN r
    ELSE IF Top(r.stack).imps # <<>> THEN r
    ELSE IF Len(r.stack) > 1 THEN Settle(Return(r))
    ELSE Settle(LoopOver(r))

\* what get_keywords_from returns and what it went through: result is what
\* is returned; kws is the list before the duplicates go, via the import
\* line each of its entries came by (0: the datafile's own), passes the
\* traces of its context
KeywordsResult(f, kws, via, c) ==
    [op |-> "keywords", df |-> f, result |-> ResultInOrder(kws, <<>>), kws |-> kws,
     via |-> via, vars |-> c.vars, passes |-> Passes(c)]

\* the return statement of get_keywords_from, get_variables_from or
\* get_resources_from
Returned(r) ==
    IF r.task = "keywords"
    THEN KeywordsResult(r.df, ConcatKeywords(r.local, r.libs.kws, r.ress.kws),
                        ConcatKeywords([i \in 1..Len(r.local) |-> 0], r.libs.via, r.ress.via),
                        r.ctx)
    ELSE IF r.task = "variables"
    THEN [op |-> "variables", df |-> r.df, vars |-> r.ctx.vars, passes |-> Passes(r.ctx)]
    ELSE [op |-> "resources", df |-> r.df, result |-> SortedByName(r.items),
          walks |-> r.walks]
----------------------------------------------------------------------------
(* The keyword dictionary and its cache *)

\* how long an entry of the ExpiringCache is valid, in ticks of the clock
Timeout == 2

\* the latest time the clock is followed to
MaxTime == 3

\* ExpiringCache.get(key): the values put under key if they were put less
\* than Timeout ago, None (hit FALSE) otherwise
CacheGet(kwc, key) ==
    IF key \in DOMAIN kwc /\ now - kwc[key].at < Timeout
    THEN [hit |-> TRUE, values |-> kwc[key].values]
    ELSE [hit |-> FALSE, values |-> EmptyFn]

\* ExpiringCache.put(key, values)
CachePut(kwc, key, values) == Put(kwc, key, [at |-> now, values |-> values])

\* "not values" for what the cache gave: None, or a NormalizedDict with no
\* entry
NotValues(got) == ~got.hit \/ DOMAIN got.values = {}

\* key in ret, for a NormalizedDict ret
InDict(key, ret) == Normalize(key) \in DOMAIN ret

\* the short name registered whether it is in ret or not
RegisterKeywordAnew(ret, kw) ==
    Put(Put(ret, Normalize(kw.name), kw), Normalize(Longname(kw)), kw)

\* the body of the loop of _keywords_to_dict for one keyword
RegisterKeyword(ret, kw) ==
    Put(IF ~InDict(kw.name, ret) THEN Put(ret, Normalize(kw.name), kw) ELSE ret,
        Normalize(Longname(kw)), kw)

\* DatafileRetriever._keywords_to_dict(keywords, datafile)
RECURSIVE KeywordsToDict(_, _)
KeywordsToDict(keywords, ret) ==
    IF keywords = <<>> THEN ret
    ELSE KeywordsToDict(Tail(keywords), RegisterKeyword(ret, Head(keywords)))

\* LibraryCache.get_default_keywords()
GetDefaultKeywords ==
    [i \in 1..Len(world.defaults) |-> KeywordInfo(world.defaults[i], T_BuiltIn, "library")]

\* words = self.get_keywords_from(datafile); words.extend(self.default_kws);
\* values = self._keywords_to_dict(words, datafile)
DictOf(words) == KeywordsToDict(words \o GetDefaultKeywords, EmptyFn)

\* the alternatives of Namespace.regexp in the order they are tried
BddPrefixes ==
    << <<"g","i","v","e","n">>, <<"w","h","e","n">>, <<"t","h","e","n">>, <<"a","n","d">> >>

\* the text after its leading \s*
RECURSIVE SkipSpace(_)
SkipSpace(t) == IF t # <<>> /\ IsSpace(Head(t)) THEN SkipSpace(Tail(t)) ELSE t

\* (given|when|then|and)(.*) matched at the start of t, ignoring case:
\* group(2) of the first alternative that matches
MatchPrefix(t) ==
    LET Hits == {i \in 1..Len(BddPrefixes) : StartsWith(Lower(t), BddPrefixes[i])}
        First(i) == [match |-> TRUE, name |-> SubSeq(t, Len(BddPrefixes[i]) + 1, Len(t))]
    IN  IF Hits = {} THEN [match |-> FALSE, name |-> <<>>]
        ELSE First(CHOOSE i \in Hits : \A j \in Hits : i <= j)

\* no match, whatever the name
NoBddName(kw_name) == [match |-> FALSE, name |-> <<>>]

\* Namespace._get_bdd_name(kw_name): match FALSE is None
GetBddName(kw_name) == MatchPrefix(SkipSpace(kw_name))

\* kwds[bdd_name] if bdd_name and bdd_name in kwds, else None
BddLookup(kwds, bdd) ==
    IF bdd.match /\ bdd.name # <<>> /\ InDict(bdd.name, kwds)
    THEN kwds[Normalize(bdd.name)]
    ELSE NoKw

\* Namespace.find_keyword after get_keywords_dict_cached has returned kwds
LookUp(kwds, kw_name) ==
    IF InDict(kw_name, kwds) THEN kwds[Normalize(kw_name)]
    ELSE BddLookup(kwds, GetBddName(kw_name))

----------------------------------------------------------------------------
(* Suggestions *)

\* the most hooks that are registered
MaxHooks == 2

\* the suggestions a content-assist hook gives
HookSuggestions(hook, f, start) ==
    <<[name |-> hook, source |-> File(f).name, kind |-> "hook"]>>

\* no hook is called
NoHookCalled(hooks, f, start, acc) == acc

\* the loop of _get_suggestions_from_hooks: sugs.extend(hook(datafile,
\* start)) for every hook; calls lists the calls made, and is read by
\* nothing in the program
RECURSIVE HooksLoop(_, _, _, _)
HooksLoop(hooks, f, start, acc) ==
    IF hooks = <<>> THEN acc
    ELSE HooksLoop(Tail(hooks), f, start,
                   [sugs  |-> acc.sugs \o HookSuggestions(Head(hooks), f, start),
                    calls |-> Append(acc.calls,
                                     [hook |-> Head(hooks), df |-> f, start |-> start])])

\* Namespace._get_suggestions_from_hooks(datafile, start)
GetSuggestionsFromHooks(hooks, f, start) ==
    HooksLoop(hooks, f, start, [sugs |-> <<>>, calls |-> <<>>])

\* Namespace._blank(start)
Blank(start) == start = <<>>

\* Namespace._looks_like_variable(start): "and" binds tighter than "or"
LooksLikeVariable(start) ==
    \/ \/ Len(start) = 1 /\ StartsWith(start, <<"$">>)
       \/ StartsWith(start, <<"@">>)
    \/ \/ Len(start) >= 2 /\ StartsWith(start, <<"$", "{">>)
       \/ StartsWith(start, <<"@", "{">>)

\* the branch of get_suggestions_for
Branch(start) ==
    IF Blank(start) THEN "all"
    ELSE IF LooksLikeVariable(start) THEN "variable"
    ELSE "keyword"

\* sugs.update(items) on a set kept in the order its elements came: an item
\* equal to one that is in the set is not added
RECURSIVE Update(_, _)
Update(sugs, items) ==
    IF items = <<>> THEN sugs
    ELSE Update(IF NotIn(Head(items), sugs) THEN Append(sugs, Head(items)) ELSE sugs,
                Tail(items))

\* the sorted list with x put in after the entries that are not greater
InsertSorted(sorted, x) ==
    LET At(k) == SubSeq(sorted, 1, k) \o <<x>> \o SubSeq(sorted, k + 1, Len(sorted))
    IN  At(Cardinality({i \in 1..Len(sorted) : ~KwLess(x, sorted[i])}))

\* list.sort() and sorted(list) on suggestions
RECURSIVE Sorted(_, _)
Sorted(items, sorted) ==
    IF items = <<>> THEN sorted
    ELSE Sorted(Tail(items), InsertSorted(sorted, Head(items)))

\* Namespace._add_kw_arg_vars(controller, vars)
AddKwArgVars(locals, env) == SetAll(env, locals, T_Argument)

\* the VariableInfo of the keys of env from the least to the greatest
RECURSIVE ListedVariables(_, _)
ListedVariables(env, keys) ==
    LET Least(k) == <<VariableInfo(env, k)>> \o ListedVariables(env, keys \ {k})
    IN  IF keys = {} THEN <<>>
        ELSE Least(CHOOSE k \in keys : \A j \in keys : ~TextLess(j, k))

\* the list with nothing filtered out
StartingWithAny(suggestions, start_normalized) == suggestions

\* [sug for sug in suggestions if normalize(sug.name).startswith(start_normalized)]
StartingWith(suggestions, start_normalized) ==
    Select(suggestions, {sug \in Range(suggestions) :
                            StartsWith(Normalize(sug.name), start_normalized)})

\* Namespace._variable_suggestions after get_variables_from has returned env
VariableSuggestions(locals, env, start) ==
    LET Listed(stash) ==
            StartingWith(ListedVariables(stash, DOMAIN stash.vals), Normalize(start))
    IN  Listed(AddKwArgVars(locals, env))

\* Namespace._keyword_suggestions after get_keywords_from has returned
KeywordSuggestions(keywords, start) ==
    Sorted(StartingWith(GetDefaultKeywords \o keywords, Normalize(start)), <<>>)

\* Namespace._all_suggestions
AllSuggestions(variables, kws) == Sorted(variables \o kws, <<>>)

----------------------------------------------------------------------------
(* The operations of Namespace that wait for a walk *)

\* nothing waits: the retriever was asked
NoCaller == [op |-> "none"]

\* DatafileRetriever.get_keywords_dict_cached
DictCaller == [op |-> "dict"]

\* Namespace.find_keyword(datafile, kw_name)
FindCaller(kw_name) == [op |-> "find", name |-> kw_name]

\* Namespace.get_suggestions_for(controller, start): sugs holds what the
\* hooks gave, vars the variable suggestions of _all_suggestions
SuggestCaller(ctrl, start) ==
    LET Hooked(got) ==
            [op |-> "suggest", start |-> start, locals |-> ctrl.locals,
             branch |-> Branch(start), sugs |-> Update(<<>>, got.sugs),
             calls |-> got.calls, vars |-> <<>>]
    IN  Hooked(GetSuggestionsFromHooks(world.hooks, ctrl.datafile, start))

\* what a query leaves: the walk that is still to go on or Idle, the
\* answer, the keyword cache
Left(r, answer, kwc) == [run |-> r, last |-> answer, kwcache |-> kwc]

\* the return statement of get_keywords_dict_cached or of find_keyword;
\* invoked says that get_keywords_from was called
DictAnswer(caller, f, values, invoked) ==
    IF caller.op = "dict"
    THEN [op |-> "dict", df |-> f, values |-> values, invoked |-> invoked, at |-> now]
    ELSE [op |-> "find", df |-> f, name |-> caller.name, values |-> values,
          invoked |-> invoked, found |-> LookUp(values, caller.name)]

\* the last statements of get_keywords_dict_cached after a miss
PutDict(caller, f, values, kwc) ==
    Left(Idle, DictAnswer(caller, f, values, TRUE), CachePut(kwc, File(f).source, values))

\* the last statements of get_suggestions_for; task is the retrieval that
\* was made last for it
SuggestAnswer(caller, f, task, sugs) ==
    [op |-> "suggest", df |-> f, start |-> caller.start, locals |-> caller.locals,
     branch |-> caller.branch, task |-> task, calls |-> caller.calls,
     result |-> Sorted(sugs, <<>>)]

\* what is done when the walk r stands: nothing while it has imports to go
\* through; when it is over, its result goes to the caller, which answers
\* or, in _all_suggestions, asks for the keywords next
RECURSIVE Outcome(_, _)
Outcome(r, kwc) ==
    IF r.stack # <<>> THEN Left(r, NoQuery, kwc)
    ELSE IF r.caller.op = "none" THEN Left(Idle, Returned(r), kwc)
    ELSE IF r.caller.op \in {"dict", "find"}
    THEN PutDict(r.caller, r.df, DictOf(Returned(r).result), kwc)
    ELSE IF r.task = "variables" /\ r.caller.branch = "all"
    THEN Outcome(Settle(BeginKeywords(
                     [r.caller EXCEPT !.vars =
                         VariableSuggestions(r.caller.locals, r.ctx.vars, <<>>)],
                     r.df)), kwc)
    ELSE IF r.task = "variables"
    THEN Left(Idle,
              SuggestAnswer(r.caller, r.df, r.task,
                  Update(r.caller.sugs,
                         VariableSuggestions(r.caller.locals, r.ctx.vars, r.caller.start))),
              kwc)
    ELSE IF r.caller.branch = "all"
    THEN Left(Idle,
              SuggestAnswer(r.caller, r.df, r.task,
                  Update(r.caller.sugs,
                         AllSuggestions(r.caller.vars,
                                        KeywordSuggestions(Returned(r).result, <<>>)))),
              kwc)
    ELSE Left(Idle,
              SuggestAnswer(r.caller, r.df, r.task,
                  Update(r.caller.sugs,
                         KeywordSuggestions(Returned(r).result, r.caller.start))),
              kwc)

\* get_keywords_dict_cached(datafile) up to the loop over the Resource
\* imports, or to its end when the cache gave values
DictCached(caller, f, got) ==
    IF NotValues(got) THEN Outcome(Settle(BeginKeywords(caller, f)), kwcache)
    ELSE Left(Idle, DictAnswer(caller, f, got.values, FALSE), kwcache)

\* get_suggestions_for(controller, start) up to the loop over the Resource
\* imports of its first walk
Suggestions(caller, f) ==
    IF caller.branch = "keyword" THEN Outcome(Settle(BeginKeywords(caller, f)), kwcache)
    ELSE Outcome(Settle(BeginVariables(caller, f)), kwcache)

----------------------------------------------------------------------------
(* The actions *)

\* the walk, the answer and the keyword cache as a query or a step left them
Commit(left) ==
    /\ run' = left.run
    /\ last' = left.last
    /\ kwcache' = left.kwcache

\* Namespace.retriever.get_keywords_from(datafile)
QueryKeywords(f) ==
    /\ run.op = "idle"
    /\ Commit(Outcome(Settle(BeginKeywords(NoCaller, f)), kwcache))
    /\ UNCHANGED <<world, rcache, now, prev>>

\* Namespace.retriever.get_variables_from(datafile)
QueryVariables(f) ==
    /\ run.op = "idle"
    /\ Commit(Outcome(Settle(BeginVariables(NoCaller, f)), kwcache))
    /\ UNCHANGED <<world, rcache, now, prev>>

\* Namespace.get_resources(datafile)
QueryResources(f) ==
    /\ run.op = "idle"
    /\ Commit(Outcome(Settle(BeginResources(NoCaller, f)), kwcache))
    /\ UNCHANGED <<world, rcache, now, prev>>

\* one turn of the loop over the Resource imports of the datafile at the
\* top of the stack: the import is resolved through the resource cache and
\* the resource gone into or passed over; the calls that are through with
\* this return, and with the outermost one the query
Step ==
    /\ run.op # "idle"
    /\ ~run.diverged
    /\ LET Resolved(g) ==
               /\ rcache' = g.rc
               /\ Commit(Outcome(Settle(Visit(run, g.res)), kwcache))
       IN  Resolved(ResolveImport(rcache, Head(Top(run.stack).imps), Top(run.stack).f,
                                  run.ctx))
    /\ UNCHANGED <<world, now, prev>>

\* Namespace.retriever.get_keywords_dict_cached(datafile)
GetKeywordsDictCached(f) ==
    /\ run.op = "idle"
    /\ Commit(DictCached(DictCaller, f, CacheGet(kwcache, File(f).source)))
    /\ prev' = last
    /\ UNCHANGED <<world, rcache, now>>

\* Namespace.find_keyword(datafile, kw_name)
FindKeyword(f, kw_name) ==
    /\ run.op = "idle"
    /\ IF kw_name = <<>>
       THEN Commit(Left(Idle, [op |-> "find", df |-> f, name |-> kw_name,
                               values |-> EmptyFn, invoked |-> FALSE, found |-> NoKw],
                        kwcache))
       ELSE Commit(DictCached(FindCaller(kw_name), f, CacheGet(kwcache, File(f).source)))
    /\ UNCHANGED <<world, rcache, now, prev>>

\* Namespace.get_suggestions_for(controller, start)
GetSuggestionsFor(ctrl, start) ==
    /\ run.op = "idle"
    /\ Commit(Suggestions(SuggestCaller(ctrl, start), ctrl.datafile))
    /\ UNCHANGED <<world, rcache, now, prev>>

\* Namespace.register_content_assist_hook(hook)
RegisterContentAssistHook(hook) ==
    /\ run.op = "idle"
    /\ Len(world.hooks) < MaxHooks
    /\ world' = [world EXCEPT !.hooks = Append(@, hook)]
    /\ UNCHANGED <<rcache, kwcache, now, run, last, prev>>

\* Namespace.get_resource(path)
GetResourceOf(path) ==
    /\ run.op = "idle"
    /\ LET Got(g) ==
               /\ rcache' = g.rc
               /\ last' = [op |-> "resource", path |-> path, res |-> g.res,
                           parses |-> g.rc.parses]
       IN  Got(GetResource(rcache, <<>>, path))
    /\ prev' = last
    /\ UNCHANGED <<world, kwcache, now, run>>

\* ResourceCache.get_resource(directory, name); before and after are the
\* cache as the call found and left it
CacheGetResource(directory, name) ==
    /\ run.op = "idle"
    /\ LET Got(g) ==
               /\ rcache' = g.rc
               /\ last' = [op |-> "get_resource", directory |-> directory, name |-> name,
                           res |-> g.res, before |-> rcache, after |-> g.rc]
       IN  Got(GetResource(rcache, directory, name))
    /\ UNCHANGED <<world, kwcache, now, run, prev>>

\* a thread that is in no call of ResourceCache._get_resource; res is what
\* its last call returned
IdleThread == [pc |-> "idle", path |-> <<>>, obj |-> NoRes, res |-> NoRes]

\* ResourceFile(path) called for the n-th time for its normalized path: a
\* new object each time, or None when it raises
NewResourceFile(parsed, n) ==
    IF parsed = NoRes THEN NoRes
    ELSE [path |-> parsed.path, file |-> parsed.file, serial |-> n]

\* thread t calls ResourceCache._get_resource(path)
ThreadCall(t, path) ==
    /\ run.op = "threads"
    /\ run.th[t].pc = "idle"
    /\ run' = [run EXCEPT !.th[t] = [IdleThread EXCEPT !.pc = "check", !.path = path]]
    /\ UNCHANGED <<world, rcache, kwcache, now, last, prev>>

\* the next statement of _get_resource in thread t: the test "normalized
\* not in self.cache", the call ResourceFile(path), the assignment to
\* self.cache[normalized] (and "return None" in the except clause), or
\* "return self.cache[normalized]"
ThreadStep(t) ==
    /\ run.op = "threads"
    /\ run.th[t].pc # "idle"
    /\ LET At(th, normalized) ==
               CASE th.pc = "check" ->
                        /\ run' = [run EXCEPT !.th[t].pc =
                                       IF normalized \notin DOMAIN rcache.cache
                                       THEN "parse" ELSE "return"]
                        /\ UNCHANGED rcache
                 [] th.pc = "parse" ->
                        /\ run' = [run EXCEPT !.th[t].pc = "store",
                                              !.th[t].obj =
                                                  NewResourceFile(ParseResourceFile(th.path),
                                                                  Count(rcache.parses, normalized) + 1)]
                        /\ rcache' = [rcache EXCEPT !.parses =
                                          Put(rcache.parses, normalized,
                                              Count(rcache.parses, normalized) + 1)]
                 [] th.pc = "store" ->
                        /\ rcache' = [rcache EXCEPT !.cache = Put(rcache.cache, normalized, th.obj)]
                        /\ run' = [run EXCEPT !.th[t].pc =
                                       IF th.obj = NoRes THEN "idle" ELSE "return"]
                 [] th.pc = "return" ->
                        /\ run' = [run EXCEPT !.th[t].pc = "idle",
                                              !.th[t].res = rcache.cache[normalized]]
                        /\ UNCHANGED rcache
       IN  At(run.th[t], Normpath(run.th[t].path))
    /\ UNCHANGED <<world, kwcache, now, last, prev>>

\* RideLogException(message, exception, level): the log message made in
\* an except clause, so that the traceback is appended to the text; its
\* topic comes from the class name
RideLogException(message, exception, level) ==
    [topic |-> "ride.log.exception",
     message |-> <<message, exception.text, "Traceback">>,
     level |-> level, timestamp |-> now, exception |-> exception]

\* WxPublisher().sendMessage(msg.topic, msg) of _publish: the listeners ls
\* of the topic are called one after the other with msg; a listener that
\* raises ends the call, the ones after it are not called. got are the
\* calls made, err what was raised (type "none": nothing)
RECURSIVE SendMessage(_, _, _, _)
SendMessage(ls, raises, msg, got) ==
    IF ls = <<>> THEN [got |-> got, err |-> [type |-> "none", text |-> ""]]
    ELSE IF raises[Head(ls)] # "none"
         THEN [got |-> Append(got, <<Head(ls), msg>>),
               err |-> [type |-> raises[Head(ls)], text |-> Head(ls)]]
         ELSE SendMessage(Tail(ls), raises, msg, Append(got, <<Head(ls), msg>>))

\* RideMessage.publish of msg: _publish inside try, and on an Exception
\* (no other kind of raise is caught) _publish of a RideLogException
\* outside of it. last keeps the messages handed to _publish (sent), the
\* listener calls made (got) and what the caller of publish saw (raised)
Publish(msg) ==
    /\ run.op = "bus"
    /\ LET Sent(first, log, second) ==
               last' = [op |-> "publish", msg |-> msg, sent |-> <<msg, log>>,
                        got |-> first.got \o second.got, raised |-> second.err]
           Logged(first, log) ==
               Sent(first, log,
                    SendMessage(run.subs[log.topic], run.raises, log, <<>>))
           Done(first) ==
               IF first.err.type = "Exception"
               THEN Logged(first, RideLogException("Error in publishing message: ",
                                                   first.err, "ERROR"))
               ELSE last' = [op |-> "publish", msg |-> msg, sent |-> <<msg>>,
                             got |-> first.got, raised |-> first.err]
       IN  Done(SendMessage(run.subs[msg.topic], run.raises, msg, <<>>))
    /\ UNCHANGED <<world, rcache, kwcache, now, run, prev>>


\* time passes
Tick ==
    /\ run.op = "idle"
    /\ now < MaxTime
    /\ now' = now + 1
    /\ UNCHANGED <<world, rcache, kwcache, run, last, prev>>
----------------------------------------------------------------------------
(* The datafiles *)

\* the longest list of Resource imports of the suite
MaxImports == 2

\* the longest list of Resource imports of a resource file
MaxResImports == 1

SeqsUpTo(S, n) == UNION {[1..k -> S] : k \in 0..n}

\* a setting table: <<kind, name>> pairs, numbered by their line
Imports(list) ==
    [i \in 1..Len(list) |->
        [kind |-> list[i][1], name |-> list[i][2], args |-> <<>>, line |-> i]]

Of(kind, names) == [i \in 1..Len(names) |-> <<kind, names[i]>>]

Datafile(name, source, directory, keywords, vartable, imports, children) ==
    [name |-> name, source |-> source, directory |-> directory,
     keywords |-> keywords, vartable |-> vartable,
     imports |-> Imports(imports), children |-> children]

Var(name, value) == [name |-> name, value |-> value]

\* top is a directory suite with the child suite; suite and r1 are in
\* directory d, r2 is in directory lib, which is on the search path
World(topI, suiteK, suiteV, suiteI, r1K, r1V, r1I, r2V, r2I, defaults) ==
    [files |->
        [f \in FileIds |->
            CASE f = "top"   -> Datafile(<<"t">>, T_d_top, T_d, <<>>, <<>>, topI, <<"suite">>)
              [] f = "suite" -> Datafile(<<"s">>, T_d_suite, T_d, suiteK, suiteV, suiteI, <<>>)
              [] f = "r1"    -> Datafile(T_r1, T_d_r1, T_d, r1K, r1V, r1I, <<>>)
              [] f = "r2"    -> Datafile(T_r2, T_lib_r2, T_lib, <<T_K2, T_K1>>, r2V, r2I, <<>>)],
     defaults |-> defaults, hooks |-> <<>>]

\* import graphs with cycles, self imports, shared and unresolvable imports,
\* and keyword names that clash between the suite, libraries and resources
GraphWorlds ==
    { World(Of("Resource", <<T_r2>>),
            sk, <<>>, Of("Resource", sr) \o Of("Library", sl),
            <<T_Foo, T_K1>>, <<>>, Of("Library", <<T_L1>>) \o Of("Resource", r1r),
            <<>>, Of("Resource", r2r), <<>>) :
        sk \in {<<>>, <<T_Bar, T_Foo>>},
        sr \in SeqsUpTo({T_r1, T_r2, T_bad}, MaxImports),
        sl \in {<<>>, <<T_L2, T_L1>>},
        r1r \in SeqsUpTo({T_dot_r1, T_r2}, MaxResImports),
        r2r \in SeqsUpTo({T_up_d_r1, T_r2}, MaxResImports) }

\* the datafiles a query is asked for
Roots == {"top", "suite", "r1"}

\* variable tables that bind ${X} in the suite, in a variable file and in
\* the resources, well-formed and malformed, under both orders of import
VarWorlds ==
    { World(<<>>,
            <<>>, sv, Of("Variables", vf) \o Of("Resource", sr),
            <<T_K1>>, r1v, Of("Resource", r1r),
            r2v, <<>>, <<>>) :
        sv \in {<<>>, <<Var(T_X, T_1)>>, <<Var(T_X, T_1), Var(T_x, T_3)>>,
                <<Var(T_SPACE, T_1)>>},
        vf \in {<<>>, <<T_vf>>, <<T_vbad>>},
        sr \in {<<T_r1>>, <<T_r1, T_r2>>, <<T_r2, T_r1>>},
        r1v \in {<<>>, <<Var(T_X, T_2)>>, <<Var(T_noVar, T_2)>>},
        r1r \in {<<>>, <<T_r2>>},
        r2v \in {<<>>, <<Var(T_X, T_2)>>, <<Var(T_X, T_U)>>} }

\* a suite with the keyword Login or with none, with and without a resource
\* and default keywords; top has no keyword and no import
DictWorlds ==
    { World(<<>>,
            sk, <<>>, Of("Resource", sr),
            <<T_Foo>>, <<>>, <<>>,
            <<>>, <<>>, defaults) :
        sk \in {<<>>, <<T_Login>>},
        sr \in {<<>>, <<T_r1>>},
        defaults \in {<<>>, <<T_Log>>} }

\* the datafiles the keyword dictionary is asked for
DictRoots == {"top", "suite"}

\* the names find_keyword is asked for
Names == {<<>>, T_Login, T_GivenLogin, T_givenlogin, T_WhenLogin, T_Logon, T_Given, T_Foo}

\* a suite with a keyword, a variable and a resource, with and without a
\* content-assist hook and default keywords
SuggestWorlds ==
    { [World(<<>>,
             <<T_Login>>, <<Var(T_X, T_1)>>, Of("Resource", <<T_r1>>),
             <<T_Foo>>, <<Var(T_P, T_2)>>, <<>>,
             <<>>, <<>>, defaults) EXCEPT !.hooks = hooks] :
        defaults \in {<<>>, <<T_Log>>, <<T_Log, T_Login>>},
        hooks \in {<<>>, <<T_H1>>} }

\* the controllers: a datafile and the local variables at the cursor
Controllers ==
    [datafile : {"suite", "r1"},
     locals : {<<>>, <<Var(T_arg, T_1)>>, <<Var(T_list, T_1)>>}]

\* the texts suggestions are asked for
Starts ==
    { <<>>, <<"$">>, <<"@">>, <<"$", "{">>, <<"@", "{">>, <<"$", "{", "X">>,
      <<"@", "a", "b", "c">>, <<"$", "a">>, <<"L", "o">>, <<"f">> }

\* the paths get_resource is asked for
Paths == {T_d_r1, <<"d", "/", ".", "/", "r", "1">>, T_r2, T_lib_r2, T_bad, T_d \o <<"/">> \o T_bad}

----------------------------------------------------------------------------
(* The specifications *)

InitOf(worlds) ==
    /\ world \in worlds
    /\ rcache = NewResourceCache
    /\ kwcache = EmptyFn
    /\ now = 0
    /\ run = Idle
    /\ last = NoQuery
    /\ prev = NoQuery

\* the retriever's queries over the import graphs
Init == InitOf(GraphWorlds)

Next ==
    \/ \E f \in Roots :
           \/ QueryKeywords(f)
           \/ QueryVariables(f)
           \/ QueryResources(f)
    \/ Step

Spec == Init /\ [][Next]_vars

\* the import graphs of GraphWorlds, every one with the suite's keywords and
\* Library imports there: whether a walk ends and what it goes through
\* depends on the Resource imports alone
LiveWorlds ==
    { w \in GraphWorlds :
        /\ w.files["suite"].keywords # <<>>
        /\ \E imp \in Range(w.files["suite"].imports) : imp.kind = "Library" }

InitLive == InitOf(LiveWorlds)

\* Step can be taken: a walk is under way and has not left the depth the
\* model follows.  Step then takes the next import of the top frame, which
\* Settle has seen to be there, and so changes run.
StepEnabled == run.op = "walk" /\ ~run.diverged

\* a query runs to its end on the calling thread, so a walk that can go on
\* does go on: weak fairness of Step, with ENABLED <<Step>>_vars written
\* out as StepEnabled
SpecLive == InitLive /\ [][Next]_vars /\ ([]<>(~StepEnabled) \/ []<><<Step>>_vars)

\* the retriever's queries over the variable tables
InitVars == InitOf(VarWorlds)

SpecVars == InitVars /\ [][Next]_vars

\* Namespace.get_resource called again and again
InitCache == InitOf(DictWorlds)

NextCache == \E path \in Paths : GetResourceOf(path)

SpecCache == InitCache /\ [][NextCache]_vars

\* the keyword dictionary and its cache
InitDict == InitOf(DictWorlds)

NextDict ==
    \/ \E f \in DictRoots : GetKeywordsDictCached(f)
    \/ Step
    \/ Tick

SpecDict == InitDict /\ [][NextDict]_vars

\* find_keyword
InitFind == InitOf(DictWorlds)

NextFind ==
    \/ \E f \in DictRoots, kw_name \in Names : FindKeyword(f, kw_name)
    \/ Step

SpecFind == InitFind /\ [][NextFind]_vars

\* get_suggestions_for
InitSuggest == InitOf(SuggestWorlds)

NextSuggest ==
    \/ \E ctrl \in Controllers, start \in Starts : GetSuggestionsFor(ctrl, start)
    \/ Step

SpecSuggest == InitSuggest /\ [][NextSuggest]_vars

\* get_suggestions_for with hooks that are registered as time goes: the
\* suite's keyword Login is a default keyword too
HookWorlds == {w \in SuggestWorlds : w.hooks = <<>> /\ w.defaults = <<T_Log, T_Login>>}

\* the hooks that are registered: the suggestion of the second has the
\* name of a keyword of the suite
Hooks == {T_H1, T_Login}

\* a text for each branch of get_suggestions_for
HookStarts == { <<>>, <<"$">>, <<"L", "o">> }

HookControllers == {ctrl \in Controllers : ctrl.locals = <<>>}

InitHooks == InitOf(HookWorlds)

NextHooks ==
    \/ \E hook \in Hooks : RegisterContentAssistHook(hook)
    \/ \E ctrl \in HookControllers, start \in HookStarts : GetSuggestionsFor(ctrl, start)
    \/ Step

SpecHooks == InitHooks /\ [][NextHooks]_vars

\* the three ways one keyword name is written, and a prefix of each
Spellings == {T_MyKeyword, T_my_keyword, T_MYKEYWORD}

PrefixSpellings == {T_MyK, T_my_k, T_MYK}

\* the suite defines the keyword in one of the three ways, with and
\* without a resource and a default keyword
SpellingWorlds ==
    { World(<<>>,
            <<sk>>, <<>>, Of("Resource", sr),
            <<T_Foo>>, <<>>, <<>>,
            <<>>, <<>>, defaults) :
        sk \in Spellings,
        sr \in {<<>>, <<T_r1>>},
        defaults \in {<<>>, <<T_Log>>} }

InitSpellings == InitOf(SpellingWorlds)

NextSpellings ==
    \/ \E kw_name \in Spellings : FindKeyword("suite", kw_name)
    \/ \E start \in PrefixSpellings :
           GetSuggestionsFor([datafile |-> "suite", locals |-> <<>>], start)
    \/ Step

SpecSpellings == InitSpellings /\ [][NextSpellings]_vars

\* datafiles with Resource imports that stand for no file, before, between
\* and after imports that can be resolved: bad is no file and is not on the
\* search path, and ${U} is bound nowhere
BrokenWorlds ==
    { World(<<>>,
            <<T_Login>>, <<Var(T_X, T_1)>>, Of("Resource", sr) \o Of("Library", <<T_L2>>),
            <<T_Foo>>, <<Var(T_P, T_2)>>, Of("Resource", r1r),
            <<Var(T_Q, T_3)>>, <<>>, <<>>) :
        sr \in {<<T_bad, T_r1>>, <<T_r1, T_bad, T_r2>>, <<T_U, T_r2>>},
        r1r \in {<<T_bad>>, <<T_bad, T_r2>>, <<T_r2, T_U>>} }

BrokenRoots == {"suite", "r1"}

InitBroken == InitOf(BrokenWorlds)

NextBroken ==
    \/ \E f \in BrokenRoots :
           \/ QueryKeywords(f)
           \/ QueryVariables(f)
           \/ QueryResources(f)
    \/ Step

SpecBroken == InitBroken /\ [][NextBroken]_vars

\* Variables imports that load (vf, which sets ${X}) and that fail (vb,
\* which sets ${X} and ${B} before it fails), in the suite and in r1
VarFileWorlds ==
    { World(<<>>,
            <<>>, <<Var(T_X, T_1)>>, Of("Variables", vfs) \o Of("Resource", <<T_r1>>),
            <<T_K1>>, <<Var(T_P, T_2)>>, Of("Variables", r1vfs) \o Of("Resource", <<T_r2>>),
            <<Var(T_Q, T_3)>>, <<>>, <<>>) :
        vfs \in {<<T_vbad>>, <<T_vbad, T_vf>>, <<T_vf, T_vbad>>, <<T_vf>>},
        r1vfs \in {<<>>, <<T_vbad>>, <<T_vbad, T_vf>>} }

InitVarFiles == InitOf(VarFileWorlds)

SpecVarFiles == InitVarFiles /\ [][NextBroken]_vars


\* variable tables with a malformed entry before a well-formed one: X1 is
\* no variable name, and ${U}, the value of ${X}, is bound nowhere; the
\* suite binds ${x} or ${X} before the resource's table is gone through
MalformedWorlds ==
    { World(<<>>,
            <<>>, sv, Of("Resource", sr),
            <<T_K1>>, r1v, Of("Resource", r1r),
            <<Var(T_B, T_3)>>, <<>>, <<>>) :
        sv \in {<<Var(T_P, T_1)>>, <<Var(T_x, T_1)>>, <<Var(T_X, T_1)>>,
                <<Var(T_noVar, T_2), Var(T_P, T_1)>>},
        sr \in {<<T_r1>>, <<T_r1, T_r2>>},
        r1v \in {<<Var(T_Q, T_2)>>, <<Var(T_X, T_U), Var(T_Q, T_2)>>,
                 <<Var(T_noVar, T_2), Var(T_Q, T_2)>>},
        r1r \in {<<>>, <<T_r2>>} }

InitMalformed == InitOf(MalformedWorlds)

SpecMalformed == InitMalformed /\ [][NextBroken]_vars

\* keyword names that meet: the suite and r1 and library L1 have a keyword
\* Foo, the suite has Foo and foo, or a keyword whose name is the long name
\* of r1's Foo; r1 has Foo and K1, L1 has Foo and LK, BuiltIn Log and LK
NameWorlds ==
    { World(<<>>,
            sk, <<>>, Of("Library", sl) \o Of("Resource", <<T_r1>>),
            <<T_Foo, T_K1>>, <<>>, <<>>,
            <<>>, <<>>, defaults) :
        sk \in {<<T_Login>>, <<T_Foo>>, <<T_Foo, T_foo>>, <<T_r1_Foo>>},
        sl \in {<<>>, <<T_L1>>},
        defaults \in {<<>>, <<T_Log, T_LK>>} }

\* the long names find_keyword is asked for
LongNames ==
    {T_s_Foo, T_s_foo, T_r1_Foo, T_r1_K1, T_L1_Foo, T_L1_LK, T_BuiltIn_Log}

InitNames == InitOf(NameWorlds)

NextNames ==
    \/ \E f \in DictRoots :
           \/ GetKeywordsDictCached(f)
           \/ \E kw_name \in LongNames : FindKeyword(f, kw_name)
    \/ Step

SpecNames == InitNames /\ [][NextNames]_vars

\* ResourceCache.get_resource called again and again, with and without a
\* directory, for names that are written differently and normalize to one
\* path: d/r1 is a resource, r2 is found on the search path as lib/r2, and
\* bad is nowhere
ResolveWorlds ==
    { World(<<>>,
            <<>>, <<>>, <<>>,
            r1k, <<>>, <<>>,
            <<>>, <<>>, <<>>) :
        r1k \in {<<T_Foo>>, <<>>} }

Directories == {<<>>, T_d}

ResourceNames == {T_r1, T_dot_r1, T_r2, T_bad, T_x_up_bad}

InitResolve == InitOf(ResolveWorlds)

NextResolve == \E directory \in Directories, name \in ResourceNames : CacheGetResource(directory, name)

SpecResolve == InitResolve /\ [][NextResolve]_vars

\* imports whose name is a variable that a resource imported later binds:
\* the suite imports Library ${P} and Resource ${Q}, which r1 binds to L1 or
\* L2 and to r2, and r1 imports Library ${B}, which r2 binds to L2; the
\* variable file vf binds ${X}
LateWorlds ==
    { World(<<>>,
            <<T_Login>>, <<>>, si,
            <<T_Foo>>, r1v, r1i,
            <<Var(T_B, T_L2)>>, <<>>, <<>>) :
        si \in {Of("Library", <<T_P>>) \o Of("Resource", <<T_Q, T_r1>>)
                    \o Of("Variables", <<T_vf>>),
                Of("Resource", <<T_r1, T_r2>>) \o Of("Library", <<T_P>>),
                Of("Library", <<T_P>>) \o Of("Resource", <<T_r1>>)},
        r1v \in {<<Var(T_P, T_L1), Var(T_Q, T_r2)>>, <<Var(T_P, T_L2)>>, <<Var(T_Q, T_r2)>>},
        r1i \in {<<>>, Of("Library", <<T_B>>)} }

InitLate == InitOf(LateWorlds)

SpecLate == InitLate /\ [][NextBroken]_vars

\* variable suggestions where the variables at the cursor have the names of
\* variables of the suite (${X}), of its resource (${P}) and of the
\* built-in ones (${SPACE}), written as they are there or in lower case
LocalWorlds == {w \in SuggestWorlds : w.hooks = <<>>}

LocalControllers ==
    [datafile : {"suite", "r1"},
     locals : {<<Var(T_X, T_3)>>, <<Var(T_x, T_3)>>, <<Var(T_SPACE, T_3)>>,
               <<Var(T_P, T_3), Var(T_arg, T_1)>>}]

LocalStarts == {<<>>, <<"$">>, <<"$", "{">>, <<"L", "o">>}

InitLocals == InitOf(LocalWorlds)

NextLocals ==
    \/ \E ctrl \in LocalControllers, start \in LocalStarts : GetSuggestionsFor(ctrl, start)
    \/ Step

SpecLocals == InitLocals /\ [][NextLocals]_vars

\* the queries of the retriever and the suggestions one after another, for
\* the suite, which binds ${X} and reaches ${P} of r1, and for r1 alone
InitQueries == InitOf(LocalWorlds)

NextQueries ==
    \/ NextBroken
    \/ \E ctrl \in LocalControllers, start \in {<<>>, <<"$">>} : GetSuggestionsFor(ctrl, start)

SpecQueries == InitQueries /\ [][NextQueries]_vars

\* two threads that call _get_resource of one ResourceCache, each statement
\* of a call a step of its own
Threads == {"a", "b"}

ThreadPaths == {T_d_r1, <<"d", "/", ".", "/", "r", "1">>, T_d_bad}

InitThreads ==
    /\ world \in ResolveWorlds
    /\ rcache = NewResourceCache
    /\ kwcache = EmptyFn
    /\ now = 0
    /\ run = [op |-> "threads", th |-> [t \in Threads |-> IdleThread]]
    /\ last = NoQuery
    /\ prev = NoQuery

NextThreads ==
    \E t \in Threads :
        \/ \E path \in ThreadPaths : ThreadCall(t, path)
        \/ ThreadStep(t)

SpecThreads == InitThreads /\ [][NextThreads]_vars

\* a publisher with listeners subscribed to two topics, some of which raise
\* when called
Listeners == {"l1", "l2", "l3"}

Topics == {"ride.saved", "ride.log.exception"}

Subscriptions ==
    {<<>>} \cup {<<l>> : l \in Listeners}
           \cup {s \in Listeners \X Listeners : s[1] # s[2]}

Published ==
    {[topic |-> "ride.saved", path |-> T_d_r1],
     [topic |-> "ride.log.exception", message |-> <<"note">>, level |-> "INFO",
      timestamp |-> 0, exception |-> [type |-> "Exception", text |-> "app"]]}

InitPublish ==
    /\ world \in ResolveWorlds
    /\ rcache = NewResourceCache
    /\ kwcache = EmptyFn
    /\ now = 0
    /\ run \in [op : {"bus"}, subs : [Topics -> Subscriptions],
                raises : [Listeners -> {"none", "Exception", "KeyboardInterrupt"}]]
    /\ last = NoQuery
    /\ prev = NoQuery

NextPublish == \E msg \in Published : Publish(msg)

SpecPublish == InitPublish /\ [][NextPublish]_vars
----------------------------------------------------------------------------
(* What the import graph of a world is, told without a walk *)

\* the resource a Resource import of datafile f stands for when its name
\* holds no variable: the file at the joined path, else the file the search
\* path gives for the name, else none
TargetOf(f, imp) ==
    LET direct == ResourceFileAt(Normpath(PathJoin(File(f).directory, imp.name)))
        found  == FindFromPythonpath(imp.name)
    IN  IF direct # NoRes THEN direct
        ELSE IF found # NoPath THEN ResourceFileAt(Normpath(found))
        ELSE NoRes

\* the resources that datafile f imports itself
Direct(f) ==
    {TargetOf(f, imp) : imp \in Range(CollectImportOfType(f, "Resource"))} \ {NoRes}

\* the resources within n imports of the resources of S
RECURSIVE Closure(_, _)
Closure(S, n) ==
    IF n = 0 THEN S
    ELSE Closure(S \cup UNION {Direct(g.file) : g \in S}, n - 1)

\* the resources that can be reached from datafile f through Resource imports
Reachable(f) == Closure(Direct(f), Cardinality(ResourceIds))

\* the resources that can be reached through one import of datafile f, the
\* resource it stands for among them
ReachableThrough(f, imp) ==
    Closure({TargetOf(f, imp)} \ {NoRes}, Cardinality(ResourceIds))

\* a datafile and the datafiles below it
RECURSIVE Descendants(_)
Descendants(f) ==
    {f} \cup UNION {Descendants(File(f).children[i]) : i \in 1..Len(File(f).children)}

\* some resource can be reached from itself
Cyclic == \E g \in ResourceIds : ResourceFileAt(ResourcePath(g)) \in Reachable(g)

NoDuplicates(s) == \A i, j \in 1..Len(s) : s[i] = s[j] => i = j

\* how many entries of kws are keywords of the resource file g itself
OwnCount(kws, g) ==
    Cardinality({i \in 1..Len(kws) :
                    kws[i].kind = "resource" /\ kws[i].source = File(g).name})

----------------------------------------------------------------------------
(* C1 *)

\* a walk never goes deeper than there are resources
C1_NeverDiverges == run.op = "walk" => ~run.diverged

\* get_keywords_from: the list it builds holds the keywords of every
\* resource that can be reached once, and of no other
C1_KeywordsOnce ==
    last.op = "keywords" =>
        \A g \in ResourceIds :
            OwnCount(last.kws, g) =
                IF ResourceFileAt(ResourcePath(g)) \in Reachable(last.df)
                THEN Len(File(g).keywords)
                ELSE 0

\* get_resources_from: the list it returns holds every resource that can be
\* reached from the datafile or a datafile below it once, and no other
C1_ResourcesOnce ==
    last.op = "resources" =>
        /\ NoDuplicates(last.result)
        /\ Range(last.result) = UNION {Reachable(f) : f \in Descendants(last.df)}

\* C1: for every import graph, also one with a cycle of Resource imports or
\* a resource that imports itself, get_keywords_from and get_resources_from
\* come to an end (every walk that is started is over at some time, and
\* none leaves the depth the resources allow), and what they build holds
\* the contribution of each resource exactly once.
C1_TerminatesExactlyOnce ==
    /\ [](C1_NeverDiverges /\ C1_KeywordsOnce /\ C1_ResourcesOnce)
    /\ (run.op = "walk") ~> (run.op = "idle")

\* a keyword query is answered in a world with a cycle, both resources of
\* the cycle gone through in the keyword pass
C1_Witness ==
    /\ last.op = "keywords"
    /\ last.df = "suite"
    /\ Cyclic
    /\ Len(last.passes[2]) = 2
    /\ run.op = "idle"


----------------------------------------------------------------------------
(* C2 *)

\* C2: within one context, from its creation or its last
\* allow_going_through_resources_again to the next, every resource is
\* added to parsed and gone into at most once: no trace of a pass, of a walk
\* that is under way or of one that is over, holds a resource twice, and no
\* resource stands twice in the calls that have not returned.
C2_VisitedOncePerPass ==
    /\ run.op = "walk" =>
           /\ \A i \in 1..Len(Passes(run.ctx)) : NoDuplicates(Passes(run.ctx)[i])
           /\ \A i \in 1..Len(run.walks) : NoDuplicates(run.walks[i])
           /\ NoDuplicates([i \in 1..(Len(run.stack) - 1) |-> run.stack[i + 1].f])
           /\ Range(run.ctx.trace) = run.ctx.parsed
    /\ last.op \in {"keywords", "variables"} =>
           \A i \in 1..Len(last.passes) : NoDuplicates(last.passes[i])
    /\ last.op = "resources" =>
           \A i \in 1..Len(last.walks) : NoDuplicates(last.walks[i])

\* a variable query is answered in a world with a cycle: the walk met a
\* resource that was parsed already and went through two resources
C2_Witness ==
    /\ last.op = "variables"
    /\ Cyclic
    /\ Len(last.passes[1]) = 2


----------------------------------------------------------------------------
(* C3 *)

\* C3: get_keywords_from returns no two entries with the same name, and a
\* name that the datafile defines itself is returned as the datafile's own
\* keyword, whatever library or resource defines it too.
C3_NoDuplicateLocalWins ==
    last.op = "keywords" =>
        /\ \A i, j \in 1..Len(last.result) :
               last.result[i].name = last.result[j].name => i = j
        /\ \A k \in 1..Len(File(last.df).keywords) :
               \E i \in 1..Len(last.result) :
                   /\ last.result[i].name = File(last.df).keywords[k]
                   /\ last.result[i].kind = "local"
                   /\ last.result[i].source = File(last.df).name

\* the suite defines Foo, and so do a library and a resource it imports:
\* the list before the duplicates go holds Foo three times
C3_Witness ==
    /\ last.op = "keywords"
    /\ last.df = "suite"
    /\ \E i \in 1..Len(last.kws) : last.kws[i].name = T_Foo /\ last.kws[i].kind = "local"
    /\ \E i \in 1..Len(last.kws) : last.kws[i].name = T_Foo /\ last.kws[i].kind = "library"
    /\ \E i \in 1..Len(last.kws) : last.kws[i].name = T_Foo /\ last.kws[i].kind = "resource"


----------------------------------------------------------------------------
(* C4 *)

\* the import of datafile f at a line of its setting table
ImportAt(f, line) == CHOOSE imp \in Range(File(f).imports) : imp.line = line

\* where an entry of kws stands by the import it came by: the datafile's
\* own first, then the Library imports, then the Resource imports
Section(f, line) ==
    IF line = 0 THEN 0
    ELSE IF ImportAt(f, line).kind = "Library" THEN 1
    ELSE 2

\* the entries of kws that came by the import at a line
CameBy(q, line) == SelectSeq([i \in 1..Len(q.kws) |-> <<q.kws[i], q.via[i]>>],
                             LAMBDA e : e[2] = line)

\* the resources first reached through the Resource import imp of datafile
\* f: not through a Resource import before it
FirstReachedThrough(f, imp) ==
    ReachableThrough(f, imp) \
        UNION {ReachableThrough(f, other) :
                  other \in {o \in Range(CollectImportOfType(f, "Resource")) :
                                o.line < imp.line}}

\* the places of kws whose name no place before them has
FirstOccurrences(kws) ==
    {i \in 1..Len(kws) : \A j \in 1..(i - 1) : kws[j].name # kws[i].name}

\* the entries of kws at the places of S, in the order of kws
RECURSIVE Picked(_, _, _)
Picked(kws, S, i) ==
    IF i > Len(kws) THEN <<>>
    ELSE (IF i \in S THEN <<kws[i]>> ELSE <<>>) \o Picked(kws, S, i + 1)

\* C4: the list get_keywords_from builds holds the datafile's own keywords
\* first, then the keywords of its Library imports in import order, then
\* the keywords got from its Resource imports in import order, each
\* resource with the import it is first reached through depth-first; and
\* the list returned is exactly the first occurrences of that list, in its
\* order.
C4_OrderedFirstOccurrences ==
    last.op = "keywords" =>
        /\ \A i, j \in 1..Len(last.kws) :
               i < j =>
                   \/ Section(last.df, last.via[i]) < Section(last.df, last.via[j])
                   \/ /\ Section(last.df, last.via[i]) = Section(last.df, last.via[j])
                      /\ last.via[i] <= last.via[j]
        /\ [i \in 1..Len(CameBy(last, 0)) |-> CameBy(last, 0)[i][1].name]
               = File(last.df).keywords
        /\ \A i \in 1..Len(last.kws) : last.via[i] = 0 <=> last.kws[i].kind = "local"
        /\ \A imp \in Range(CollectImportOfType(last.df, "Library")) :
               [i \in 1..Len(CameBy(last, imp.line)) |-> CameBy(last, imp.line)[i][1].name]
                   = LibraryKeywordNames(imp.name)
        /\ \A imp \in Range(CollectImportOfType(last.df, "Resource")) :
               {e[1].source : e \in {x \in Range(CameBy(last, imp.line)) :
                                        x[1].kind = "resource"}}
                   = {File(g.file).name : g \in FirstReachedThrough(last.df, imp)}
        /\ last.result = Picked(last.kws, FirstOccurrences(last.kws), 1)

\* a list with all three parts, the libraries' and the resources' with more
\* than one import, and with duplicates that went
C4_Witness ==
    /\ last.op = "keywords"
    /\ last.df = "suite"
    /\ \E i \in 1..Len(last.kws) : Section(last.df, last.via[i]) = 0
    /\ Cardinality({last.via[i] : i \in {j \in 1..Len(last.kws) :
                                            Section(last.df, last.via[j]) = 1}}) = 2
    /\ Cardinality({last.via[i] : i \in {j \in 1..Len(last.kws) :
                                            Section(last.df, last.via[j]) = 2}}) = 2
    /\ Len(last.result) < Len(last.kws)
----------------------------------------------------------------------------
(* C5 *)

\* the variable table of datafile f defines name with value: the first
\* entry for the name is this one
Defines(f, name, value) ==
    \E i \in 1..Len(File(f).vartable) :
        /\ File(f).vartable[i] = Var(name, value)
        /\ \A j \in 1..(i - 1) : VarKey(File(f).vartable[j].name) # VarKey(name)

\* C5: a datafile defines ${X} with value 1 in its variable table, loads no
\* variable file, and a resource that can be reached from it defines ${X}
\* with value 2: the environment get_variables_from returns, and the one
\* get_keywords_from uses, binds ${X} to 1 with the datafile as provenance.
C5_FirstDefinitionWins ==
    /\ last.op \in {"variables", "keywords"}
    /\ Defines(last.df, T_X, T_1)
    /\ CollectImportOfType(last.df, "Variables") = <<>>
    /\ \E g \in Reachable(last.df) : Defines(g.file, T_X, T_2)
    => Binding(last.vars, VarKey(T_X))
           = [name |-> T_X, value |-> T_1, source |-> File(last.df).source]

----------------------------------------------------------------------------
(* C6 *)

\* C6: set_from_variable_table never changes the value or the provenance of
\* a name that is bound when the entry is gone through, be the entry
\* well-formed or malformed: no walk, under way or over, has seen a bound
\* key bound differently after an entry of a variable table.
C6_TableKeepsBound ==
    /\ run.op = "walk" => run.ctx.vars.clobbered = {}
    /\ last.op \in {"variables", "keywords"} => last.vars.clobbered = {}

----------------------------------------------------------------------------
(* C7 *)

\* C7: a path whose parse failed has the failure as its entry in the cache
\* and ResourceFile is never called for it again: no normalized path is
\* parsed twice, every path that was parsed has an entry, and of two calls
\* of get_resource after another for the same path of which the first
\* returned None the second returns None and parses nothing.
C7_NegativeCaching ==
    /\ \A p \in DOMAIN rcache.parses : rcache.parses[p] = 1 /\ p \in DOMAIN rcache.cache
    /\ /\ prev.op = "resource"
       /\ last.op = "resource"
       /\ prev.path = last.path
       /\ prev.res = NoRes
       => /\ last.res = NoRes
          /\ last.parses = prev.parses
          /\ Count(last.parses, Normpath(last.path)) = 1
          /\ rcache.cache[Normpath(last.path)] = NoRes

\* get_resource was called twice after another for the path bad, which is
\* no file and is not on the search path
C7_Witness ==
    /\ prev.op = "resource"
    /\ last.op = "resource"
    /\ prev.path = T_bad
    /\ last.path = T_bad
    /\ last.res = NoRes

----------------------------------------------------------------------------
(* C8 *)

\* C8: get_keywords_dict_cached called for a datafile whose values an
\* earlier call computed and put less than Timeout ago returns values equal
\* to those and does not call get_keywords_from, for every datafile, also
\* one with no keyword at all.
C8_DictCachedIdempotent ==
    /\ prev.op = "dict"
    /\ last.op = "dict"
    /\ prev.df = last.df
    /\ prev.invoked
    /\ last.at - prev.at < Timeout
    => /\ last.values = prev.values
       /\ ~last.invoked

----------------------------------------------------------------------------
(* C9 *)

\* the words a keyword name of a BDD step begins with
BddWords ==
    { <<"g","i","v","e","n">>, <<"w","h","e","n">>, <<"t","h","e","n">>, <<"a","n","d">> }

\* what is left of name after white space and one of the words, in any case
Remainders(name) ==
    { SubSeq(name, k + 1, Len(name)) :
        k \in { k \in 0..Len(name) :
                  \E i \in 0..k :
                      /\ \A j \in 1..i : IsSpace(name[j])
                      /\ Lower(SubSeq(name, i + 1, k)) \in BddWords } }

\* the keyword find_keyword is to return for name from the mapping values
Expected(values, name) ==
    IF name = <<>> THEN NoKw
    ELSE IF Normalize(name) \in DOMAIN values THEN values[Normalize(name)]
    ELSE IF \E rest \in Remainders(name) : rest # <<>> /\ Normalize(rest) \in DOMAIN values
    THEN values[Normalize(CHOOSE rest \in Remainders(name) :
                              rest # <<>> /\ Normalize(rest) \in DOMAIN values)]
    ELSE NoKw

\* the suite defines the keyword Login and nothing else is there
OnlyLogin ==
    /\ File("suite").keywords = <<T_Login>>
    /\ File("suite").imports = <<>>
    /\ world.defaults = <<>>

\* C9: find_keyword returns the keyword stored under the name when there is
\* one; else, when the name is white space, one of given, when, then, and
\* in any case, and a remainder, the keyword stored under the remainder;
\* else, and for an empty name or an empty remainder, None.  With Login the
\* only keyword, "Given Login", "given login" and " WHEN Login" give Login
\* and "Logon", "Given" and "" give None.
C9_FindKeywordBdd ==
    last.op = "find" =>
        /\ last.found = Expected(last.values, last.name)
        /\ OnlyLogin /\ last.df = "suite" =>
               /\ last.name \in {T_Login, T_GivenLogin, T_givenlogin, T_WhenLogin}
                      => last.found = KeywordInfo(T_Login, File("suite").name, "local")
               /\ last.name \in {T_Logon, T_Given, <<>>} => last.found = NoKw

\* "Given Login" was looked up where Login is the only keyword, and found
C9_Witness ==
    /\ last.op = "find"
    /\ last.df = "suite"
    /\ OnlyLogin
    /\ last.name = T_GivenLogin
    /\ last.found.name = T_Login

----------------------------------------------------------------------------
(* C10 *)

\* the single character $ or @, or two or more characters that start with
\* ${ or @{
StartOfVariable(start) ==
    \/ start = <<"$">>
    \/ start = <<"@">>
    \/ Len(start) >= 2 /\ SubSeq(start, 1, 2) \in {<<"$", "{">>, <<"@", "{">>}

\* C10: for a text that is not empty, get_suggestions_for gets the variable
\* suggestions if and only if the text is the single character $ or @ or
\* has two or more characters and starts with ${ or @{; for every other
\* text it gets the keyword suggestions.
C10_VariableDispatch ==
    last.op = "suggest" /\ last.start # <<>> =>
        /\ last.task = "variables" <=> StartOfVariable(last.start)
        /\ last.task = "keywords" <=> ~StartOfVariable(last.start)
----------------------------------------------------------------------------
(* C11 *)

\* a suggestion is a VariableInfo
IsVariableInfo(sug) == "value" \in DOMAIN sug

\* the names the variable tables that can be reached from datafile f bind,
\* the built-in ones and the ones at the cursor
VariableNamesAt(f, locals) ==
    {GlobalVariables[i].name : i \in 1..Len(GlobalVariables)}
        \cup {File(f).vartable[i].name : i \in 1..Len(File(f).vartable)}
        \cup UNION {{File(g.file).vartable[i].name : i \in 1..Len(File(g.file).vartable)} :
                       g \in Reachable(f)}
        \cup {locals[i].name : i \in 1..Len(locals)}

\* the names of the keywords of datafile f itself and of its libraries
OwnKeywordNames(f) ==
    Range(File(f).keywords)
        \cup UNION {Range(LibraryKeywordNames(imp.name)) :
                       imp \in Range(CollectImportOfType(f, "Library"))}

\* the names of the default keywords and of the keywords that can be
\* reached from datafile f
KeywordNamesAt(f) ==
    Range(world.defaults) \cup OwnKeywordNames(f)
        \cup UNION {OwnKeywordNames(g.file) : g \in Reachable(f)}

\* the variable suggestions and the keyword suggestions of a list
VariablesOf(sugs) == {sugs[i] : i \in {j \in 1..Len(sugs) : IsVariableInfo(sugs[j])}}

KeywordsOf(sugs) == {sugs[i] : i \in {j \in 1..Len(sugs) : ~IsVariableInfo(sugs[j])}}

\* C11: with no hook registered, get_suggestions_for returns for '' all
\* the variables and all the keywords, for '$' variables only (those whose
\* normalized name starts with '$'), for 'Lo' keywords only: the default
\* keywords and the datafile's keywords whose normalized name starts with
\* 'lo'; the list returned is in ascending order of name and holds no name
\* twice.
C11_SuggestionDispatch ==
    last.op = "suggest" /\ world.hooks = <<>> =>
        /\ \A i, j \in 1..Len(last.result) :
               i < j => TextLess(last.result[i].name, last.result[j].name)
        /\ last.start = <<>> =>
               /\ {VarKey(s.name) : s \in VariablesOf(last.result)}
                      = {VarKey(n) : n \in VariableNamesAt(last.df, last.locals)}
               /\ {s.name : s \in KeywordsOf(last.result)} = KeywordNamesAt(last.df)
        /\ last.start = <<"$">> =>
               /\ KeywordsOf(last.result) = {}
               /\ {VarKey(s.name) : s \in VariablesOf(last.result)}
                      = {VarKey(n) : n \in {m \in VariableNamesAt(last.df, last.locals) :
                                               m[1] = "$"}}
        /\ last.start = <<"L", "o">> =>
               /\ VariablesOf(last.result) = {}
               /\ {s.name : s \in KeywordsOf(last.result)}
                      = {n \in KeywordNamesAt(last.df) :
                            Len(n) >= 2 /\ Lower(SubSeq(Without(n, {" ", "\t"}), 1, 2))
                                               = <<"l", "o">>}

\* 'Lo' was asked for where Login is a keyword of the suite and a default
\* keyword too, and Foo a keyword of the resource: Login is there once
C11_Witness ==
    /\ last.op = "suggest"
    /\ world.hooks = <<>>
    /\ world.defaults = <<T_Log, T_Login>>
    /\ last.df = "suite"
    /\ last.start = <<"L", "o">>
    /\ Len(last.result) = 2

----------------------------------------------------------------------------
(* C12 *)

\* the calls of the hooks that get_suggestions_for(controller, start) is
\* to make for datafile f: every registered hook once, in the order of
\* registration
CallsDue(f, start) ==
    [i \in 1..Len(world.hooks) |-> [hook |-> world.hooks[i], df |-> f, start |-> start]]

\* a call of get_suggestions_for has made its calls of the hooks and gone
\* into a walk, or has returned
Asked == run.op = "walk" /\ run.caller.op = "suggest"

Answered ==
    /\ last.op = "suggest"
    /\ last.calls = CallsDue(last.df, last.start)
    /\ \A i \in 1..Len(world.hooks) :
           \A s \in Range(HookSuggestions(world.hooks[i], last.df, last.start)) :
               \E k \in 1..Len(last.result) : KwEq(last.result[k], s)

\* C12: get_suggestions_for calls every registered hook once, in the order
\* of registration, with the datafile and the text, before it goes on to
\* the variables or the keywords (the walk it then waits for finds the
\* calls made), and every suggestion a hook gave is in the result it
\* returns, whatever the text is and whatever it filters out.
C12_HooksAlwaysAsked ==
    [][/\ Asked' => (run.caller.calls = CallsDue(run.df, run.caller.start))'
       /\ last' # last /\ last'.op = "suggest" => Answered']_vars

\* two hooks are registered, Login before H1, and 'Lo' was asked for: what
\* H1 gave is in the result though it does not start with 'lo'
C12_Witness ==
    /\ last.op = "suggest"
    /\ world.hooks = <<T_Login, T_H1>>
    /\ last.start = <<"L", "o">>
    /\ \E k \in 1..Len(last.result) : last.result[k].name = T_H1

----------------------------------------------------------------------------
(* C13 *)

\* C13: "My Keyword", "my_keyword" and "MYKEYWORD" are one key: where the
\* suite defines the keyword under one of them, find_keyword finds it under
\* each of them, and get_suggestions_for suggests it for the prefix "My K",
\* "my_k" and "MYK" alike.
C13_InsensitiveMatching ==
    /\ last.op = "find" /\ last.name \in Spellings =>
           last.found = KeywordInfo(File(last.df).keywords[1], File(last.df).name, "local")
    /\ last.op = "suggest" /\ last.start \in PrefixSpellings =>
           \E k \in 1..Len(last.result) :
               last.result[k].name = File(last.df).keywords[1]

----------------------------------------------------------------------------
(* C14 *)

\* the sequences of a sequence, one after the other
RECURSIVE Flatten(_)
Flatten(ss) == IF ss = <<>> THEN <<>> ELSE Head(ss) \o Flatten(Tail(ss))

\* a datafile and the datafiles below it, each before its children
RECURSIVE PreOrder(_)
PreOrder(f) ==
    <<f>> \o Flatten([i \in 1..Len(File(f).children) |-> PreOrder(File(f).children[i])])

\* C14: get_resources_from returns the resources that can be reached
\* through Resource imports from the datafile or a datafile below it, and
\* no other, each once, in ascending order of name; every datafile below
\* is gone through with a RetrieverContext of its own, so its walk takes
\* every resource that can be reached from it, also one the walk of its
\* parent took.
C14_ResourcesOfDescendants ==
    last.op = "resources" =>
        /\ Range(last.result) = UNION {Reachable(f) : f \in Descendants(last.df)}
        /\ \A i, j \in 1..Len(last.result) :
               i < j => TextLess(File(last.result[i].file).name,
                                 File(last.result[j].file).name)
        /\ Len(last.walks) = Len(PreOrder(last.df))
        /\ \A i \in 1..Len(last.walks) :
               /\ Range(last.walks[i]) = Reachable(PreOrder(last.df)[i])
               /\ NoDuplicates(last.walks[i])

\* the resources of top were asked for: top and the suite below it both
\* import r2, which imports r1, and each of the two walks took both
C14_Witness ==
    /\ last.op = "resources"
    /\ last.df = "top"
    /\ Len(last.walks) = 2
    /\ Len(last.walks[1]) = 2
    /\ Range(last.walks[2]) = Range(last.walks[1])
    /\ Len(last.result) = 2

----------------------------------------------------------------------------
(* C15 *)

\* datafile f and the resources that can be reached from it
WithReachable(f) == {f} \cup {g.file : g \in Reachable(f)}

\* a Resource import of datafile f, or of a resource that can be reached
\* from it, stands for no resource
Broken(f) ==
    \E g \in WithReachable(f) :
        \E imp \in Range(CollectImportOfType(g, "Resource")) : TargetOf(g, imp) = NoRes

\* C15: a Resource import that cannot be parsed or found stops no walk and
\* fails no query: get_keywords_from, get_variables_from and
\* get_resources_from return, and what they return holds the datafile's own
\* contribution and that of every resource that the imports before and
\* after the broken one lead to.
C15_BrokenImportSkipped ==
    /\ run.op = "walk" => ~run.diverged
    /\ last.op = "keywords" /\ Broken(last.df) =>
           /\ \A k \in 1..Len(File(last.df).keywords) :
                  last.kws[k] = KeywordInfo(File(last.df).keywords[k],
                                            File(last.df).name, "local")
           /\ \A n \in OwnKeywordNames(last.df) :
                  \E i \in 1..Len(last.result) : last.result[i].name = n
           /\ \A g \in Reachable(last.df) :
                  OwnCount(last.kws, g.file) = Len(File(g.file).keywords)
    /\ last.op = "variables" /\ Broken(last.df) =>
           \A g \in WithReachable(last.df) :
               \A i \in 1..Len(File(g).vartable) :
                   Binding(last.vars, VarKey(File(g).vartable[i].name))
                       = [name |-> File(g).vartable[i].name,
                          value |-> File(g).vartable[i].value,
                          source |-> File(g).source]
    /\ last.op = "resources" /\ Broken(last.df) =>
           Range(last.result) = Reachable(last.df)

\* the keywords of the suite were asked for; its imports are r1, bad and
\* r2, and r1 imports bad too: the keywords of r1 and of r2 are there
C15_Witness ==
    /\ last.op = "keywords"
    /\ last.df = "suite"
    /\ [i \in 1..Len(CollectImportOfType("suite", "Resource")) |->
           CollectImportOfType("suite", "Resource")[i].name] = <<T_r1, T_bad, T_r2>>
    /\ CollectImportOfType("r1", "Resource")[1].name = T_bad
    /\ \E i \in 1..Len(last.result) : last.result[i].name = T_Foo
    /\ \E i \in 1..Len(last.result) : last.result[i].name = T_K2

----------------------------------------------------------------------------
(* C16 *)

\* the path set_from_file is called with for a Variables import of datafile g
VarFilePath(g, imp) == PathJoin(File(g).directory, imp.name)

\* the Variables imports of datafile g whose file loads, and whose file fails
Loading(g) ==
    {imp \in Range(CollectImportOfType(g, "Variables")) :
        VariableFile(VarFilePath(g, imp)).ok}

Failing(g) == Range(CollectImportOfType(g, "Variables")) \ Loading(g)

\* the names the variable files that load set, for datafile f and the
\* resources that can be reached from it
LoadedNames(f) ==
    UNION {UNION {{VariableFile(VarFilePath(g, imp)).vars[i].name :
                      i \in 1..Len(VariableFile(VarFilePath(g, imp)).vars)} :
                     imp \in Loading(g)} :
              g \in WithReachable(f)}

\* C16: a variable file that fails to load leaves the environment as it
\* was: the environment a query returns binds the built-in names, the
\* names of the variable tables and the names of the files that load, and
\* nothing else; no binding has a failing file as its provenance; a name
\* of a table that no loading file sets keeps the table's value; and the
\* files and resources imported after the failing one are gone through.
C16_FailingVariableFile ==
    last.op \in {"variables", "keywords"}
        /\ (\E g \in WithReachable(last.df) : Failing(g) # {}) =>
        /\ {VarKey(n) : n \in VariableNamesAt(last.df, <<>>) \cup LoadedNames(last.df)}
               = DOMAIN last.vars.vals
        /\ \A k \in DOMAIN last.vars.vals :
               \A g \in WithReachable(last.df) :
                   \A imp \in Failing(g) :
                       Binding(last.vars, k).source # VarFilePath(g, imp)
        /\ \A g \in WithReachable(last.df) :
               \A i \in 1..Len(File(g).vartable) :
                   File(g).vartable[i].name \notin LoadedNames(last.df) =>
                       Binding(last.vars, VarKey(File(g).vartable[i].name))
                           = [name |-> File(g).vartable[i].name,
                              value |-> File(g).vartable[i].value,
                              source |-> File(g).source]
        /\ \A g \in WithReachable(last.df) :
               \A imp \in Loading(g) :
                   \E k \in DOMAIN last.vars.vals :
                       Binding(last.vars, k).source = VarFilePath(g, imp)

\* the variables of the suite were asked for; it imports the failing vb
\* before vf, and r1: ${X} is as vf sets it, ${P} of r1 is bound and ${B}
\* of vb is not
C16_Witness ==
    /\ last.op = "variables"
    /\ last.df = "suite"
    /\ [i \in 1..Len(CollectImportOfType("suite", "Variables")) |->
           CollectImportOfType("suite", "Variables")[i].name] = <<T_vbad, T_vf>>
    /\ Binding(last.vars, VarKey(T_X)).value = T_3
    /\ VarKey(T_P) \in DOMAIN last.vars.vals
    /\ VarKey(T_B) \notin DOMAIN last.vars.vals

----------------------------------------------------------------------------
(* C17 *)

\* the keywords that came by the Resource import at a line, as a list
Segment(q, line) == [i \in 1..Len(CameBy(q, line)) |-> CameBy(q, line)[i][1]]

\* the resource that the Resource import of datafile f at a line stands for
TargetAt(f, line) == TargetOf(f, ImportAt(f, line)).file

\* the keywords of the Library imports of datafile g, in import order
LibraryKeywordsOf(g) ==
    Flatten([i \in 1..Len(CollectImportOfType(g, "Library")) |->
                GetLibraryKeywords(CollectImportOfType(g, "Library")[i].name, <<>>)])

\* the lines of the Resource imports of the datafile asked for by which
\* keywords came
LinesWithKeywords(q) ==
    {imp.line : imp \in {i \in Range(CollectImportOfType(q.df, "Resource")) :
                            CameBy(q, i.line) # <<>>}}

\* the first n and the last n entries of a list
FirstOf(s, n) == SubSeq(s, 1, n)

LastOf(s, n) == SubSeq(s, Len(s) - n + 1, Len(s))

\* the keywords of resource g itself, as _res_kw_recursive_getter lists them
OwnOf(g) ==
    [i \in 1..Len(File(g).keywords) |->
        KeywordInfo(File(g).keywords[i], File(g).name, "resource")]

\* C17 as amended: in the list _res_kw_recursive_getter returns for a
\* resource, the resource's own user keywords come first, then the
\* keywords of its nested Resource imports, then the keywords of its own
\* Library imports: what came by a Resource import of the datafile begins
\* with the own keywords of the resource it stands for and ends with that
\* resource's library keywords, and the own keywords of a resource stand
\* before the keywords of its libraries wherever it was gone into.
C17_OwnKeywordsFirst ==
    last.op = "keywords" =>
        /\ \A line \in LinesWithKeywords(last) :
               /\ FirstOf(Segment(last, line), Len(File(TargetAt(last.df, line)).keywords))
                      = OwnOf(TargetAt(last.df, line))
               /\ LastOf(Segment(last, line), Len(LibraryKeywordsOf(TargetAt(last.df, line))))
                      = LibraryKeywordsOf(TargetAt(last.df, line))
        /\ \A p, q \in 1..Len(last.kws) :
               /\ Section(last.df, last.via[q]) = 2
               /\ last.kws[q].kind = "library"
               /\ last.kws[p] \in Range(OwnOf("r1"))
               /\ last.via[p] = last.via[q]
               => p < q

\* C17: in the list produced for a resource that is gone into, the
\* keywords of the resource's Library imports and of its nested Resource
\* imports come before the resource's own user keywords: what came by a
\* Resource import of the datafile ends with the own keywords of the
\* resource it stands for.
C17_ImportedKeywordsFirst ==
    last.op = "keywords" =>
        \A line \in LinesWithKeywords(last) :
            LastOf(Segment(last, line), Len(File(TargetAt(last.df, line)).keywords))
                = OwnOf(TargetAt(last.df, line))

\* the keywords of the suite were asked for; it imports r1, which imports a
\* library and r2: the list for r1 has r1's, then r2's, then the library's
C17_Witness ==
    /\ last.op = "keywords"
    /\ last.df = "suite"
    /\ \E line \in LinesWithKeywords(last) :
           /\ TargetAt(last.df, line) = "r1"
           /\ Segment(last, line)
                  = (OwnOf("r1") \o OwnOf("r2")) \o LibraryKeywordsOf("r1")

----------------------------------------------------------------------------
(* C18 *)

\* the entries of the variable table of datafile g that
\* _get_var_table_name_and_value raises DataError for: the name is no
\* variable, or the value refers to ${U}, which nothing binds
MalformedEntries(g) ==
    {i \in 1..Len(File(g).vartable) :
        ~IsVar(File(g).vartable[i].name) \/ File(g).vartable[i].value = T_U}

\* C18: a malformed entry of a variable table aborts nothing: when its name
\* is a variable it is bound to the empty value with the source of its
\* table as provenance, when not no binding is made for it; and the
\* entries after it and the tables of the resources gone into afterwards
\* are bound as they are written.
C18_MalformedDeclaration ==
    /\ run.op = "walk" => ~run.diverged
    /\ last.op = "variables" =>
           \A g \in WithReachable(last.df) :
               \A i \in 1..Len(File(g).vartable) :
                   IF i \in MalformedEntries(g)
                   THEN IF IsVar(File(g).vartable[i].name)
                        THEN /\ Binding(last.vars, VarKey(File(g).vartable[i].name)).value
                                    = <<>>
                             /\ Binding(last.vars, VarKey(File(g).vartable[i].name)).source
                                    = File(g).source
                        ELSE /\ VarKey(File(g).vartable[i].name) \notin DOMAIN last.vars.vals
                             /\ \A v \in VariableInfos(last.vars) :
                                    v.name # File(g).vartable[i].name
                   ELSE VarKey(File(g).vartable[i].name) \in DOMAIN last.vars.vals

\* what holds of the malformed entries when no name is bound under two
\* spellings: the same with the provenance read from the name as the
\* malformed entry writes it
C18_MalformedAsWritten ==
    last.op = "variables" =>
        \A g \in WithReachable(last.df) :
            \A i \in MalformedEntries(g) :
                IsVar(File(g).vartable[i].name) =>
                    /\ last.vars.vals[VarKey(File(g).vartable[i].name)].value = <<>>
                    /\ last.vars.sources[File(g).vartable[i].name] = File(g).source

\* the suite binds ${x}; r1, gone into afterwards, declares ${X} with a
\* value that cannot be resolved, and ${Q} after it
C18_Shadowed ==
    /\ last.op = "variables"
    /\ last.df = "suite"
    /\ File("suite").vartable = <<Var(T_x, T_1)>>
    /\ File("r1").vartable = <<Var(T_X, T_U), Var(T_Q, T_2)>>
    /\ Binding(last.vars, VarKey(T_Q)).value = T_2

----------------------------------------------------------------------------
(* C19 *)

\* the keywords of datafile f itself, as get_keywords_from lists them
LocalOf(f) ==
    [i \in 1..Len(File(f).keywords) |->
        KeywordInfo(File(f).keywords[i], File(f).name, "local")]

\* the keywords of datafile f, of its libraries and of the resources it
\* imports, which import nothing themselves
Collected(f) ==
    (LocalOf(f) \o LibraryKeywordsOf(f))
        \o Flatten([i \in 1..Len(CollectImportOfType(f, "Resource")) |->
                       OwnOf(TargetOf(f, CollectImportOfType(f, "Resource")[i]).file)])

\* the entries of a list that no entry before them equals in name
FirstByName(s) == Picked(s, FirstOccurrences(s), 1)

\* get_keywords_from(datafile) followed by the default keywords
WordsOf(f) ==
    FirstByName(Collected(f))
        \o [i \in 1..Len(world.defaults) |->
               KeywordInfo(world.defaults[i], T_BuiltIn, "library")]

\* the places of list w whose keyword has the normalized short name, or
\* the normalized long name, k
ShortAt(w, k) == {i \in 1..Len(w) : Normalize(w[i].name) = k}

LongAt(w, k) == {i \in 1..Len(w) : Normalize(w[i].source \o <<".">> \o w[i].name) = k}

Least(S) == CHOOSE i \in S : \A j \in S : i <= j

Greatest(S) == CHOOSE i \in S : \A j \in S : j <= i

\* values is the mapping of list w with the long names going before the
\* short ones
MapsLongFirst(values, w) ==
    /\ DOMAIN values = {Normalize(w[i].name) : i \in 1..Len(w)}
                           \cup {Normalize(w[i].source \o <<".">> \o w[i].name) :
                                    i \in 1..Len(w)}
    /\ \A k \in DOMAIN values :
           values[k] = IF LongAt(w, k) # {} THEN w[Greatest(LongAt(w, k))]
                       ELSE w[Least(ShortAt(w, k))]

\* values is the mapping of list w as C19 has it
MapsAsClaimed(values, w) ==
    \A i \in 1..Len(w) :
        /\ values[Normalize(w[i].name)] = w[Least(ShortAt(w, Normalize(w[i].name)))]
        /\ values[Normalize(w[i].source \o <<".">> \o w[i].name)]
               = w[Greatest(LongAt(w, Normalize(w[i].source \o <<".">> \o w[i].name)))]

----------------------------------------------------------------------------
(* C20 *)

\* the keywords that can be reached from datafile f: its own, those of its
\* libraries and of the resources gone into
ReachableKeywords(f) == Range(Collected(f))

\* C20: every keyword that can be reached from a datafile is found by its
\* long name: find_keyword(datafile, longname) returns a keyword of that
\* source with that name, also when a keyword that goes before it has the
\* same short name.
C20_FoundByLongName ==
    last.op = "find" =>
        \A kw \in ReachableKeywords(last.df) :
            last.name = kw.source \o <<".">> \o kw.name =>
                /\ last.found.source = kw.source
                /\ Normalize(last.found.name) = Normalize(kw.name)

\* what holds of the keywords whose name no keyword before them has
C20_FoundWhenNotShadowed ==
    last.op = "find" =>
        \A kw \in Range(FirstByName(Collected(last.df))) :
            last.name = kw.source \o <<".">> \o kw.name =>
                /\ last.found.source = kw.source
                /\ Normalize(last.found.name) = Normalize(kw.name)

\* the suite has the keyword Foo and imports r1, which has Foo too:
\* r1.Foo was looked for in the suite
C20_Shadowed ==
    /\ last.op = "find"
    /\ last.df = "suite"
    /\ last.name = T_r1_Foo
    /\ File("suite").keywords = <<T_Foo>>
    /\ last.found = NoKw

----------------------------------------------------------------------------
(* C21 *)

\* the path get_resource tries first
DirectPath(q) == IF q.directory # <<>> THEN PathJoin(q.directory, q.name) ELSE q.name

\* the entry of a cache for a path, NoRes when it has none
EntryOf(rc, path) ==
    IF Normpath(path) \in DOMAIN rc.cache THEN rc.cache[Normpath(path)] ELSE NoRes

\* C21: get_resource asks the search path only when the direct path gives
\* no resource; find_from_pythonpath is called at most once for a name as
\* long as the cache lives and its answer, a path or none, is kept; and
\* when the answer is a path the result is the entry of that path in the
\* cache, parsed and stored by the same step, and None when it is not.
C21_SearchPathFallback ==
    /\ \A n \in DOMAIN rcache.lookups :
           /\ rcache.lookups[n] = 1
           /\ n \in DOMAIN rcache.py
           /\ rcache.py[n] = (IF n = T_r2 THEN T_lib_r2 ELSE NoPath)
    /\ last.op = "get_resource" =>
           IF EntryOf(last.after, DirectPath(last)) # NoRes
           THEN /\ last.res = EntryOf(last.after, DirectPath(last))
                /\ last.after.py = last.before.py
                /\ last.after.lookups = last.before.lookups
           ELSE /\ Normpath(DirectPath(last)) \in DOMAIN last.after.cache
                /\ last.name \in DOMAIN last.after.py
                /\ \A n \in DOMAIN last.after.lookups :
                       Count(last.before.lookups, n) # last.after.lookups[n] =>
                           n = last.name /\ n \notin DOMAIN last.before.py
                /\ IF last.after.py[last.name] # NoPath
                   THEN /\ Normpath(last.after.py[last.name]) \in DOMAIN last.after.cache
                        /\ last.res = EntryOf(last.after, last.after.py[last.name])
                   ELSE last.res = NoRes

\* r2 was asked for in directory d once more: d/r2 is no file, the answer
\* of the search path was there already and was not asked for again, and
\* the result is the resource at lib/r2
C21_Witness ==
    /\ last.op = "get_resource"
    /\ last.directory = T_d
    /\ last.name = T_r2
    /\ T_r2 \in DOMAIN last.before.py
    /\ last.after.lookups[T_r2] = 1
    /\ T_d_r2 \in DOMAIN last.after.cache
    /\ last.res = [path |-> T_lib_r2, file |-> "r2"]
    /\ T_bad \in DOMAIN last.after.py

----------------------------------------------------------------------------
(* C22 *)

\* C22: paths that normalize to one path share one entry of the cache: the
\* keys of the cache are normalized paths, no normalized path is parsed
\* twice, and a call whose direct path normalizes to a key the cache has
\* parses nothing for it and finds the entry that was there, the resource
\* or None, however the path was written by the call that made the entry.
C22_NormalizedPathsShareEntry ==
    /\ \A p \in DOMAIN rcache.cache : Normpath(p) = p /\ Count(rcache.parses, p) = 1
    /\ \A p \in DOMAIN rcache.parses : p \in DOMAIN rcache.cache
    /\ last.op = "get_resource" /\ Normpath(DirectPath(last)) \in DOMAIN last.before.cache =>
           /\ Count(last.after.parses, Normpath(DirectPath(last))) = 1
           /\ EntryOf(last.after, DirectPath(last))
                  = last.before.cache[Normpath(DirectPath(last))]
           /\ EntryOf(last.after, DirectPath(last)) # NoRes =>
                  /\ last.res = last.before.cache[Normpath(DirectPath(last))]
                  /\ last.after = last.before

\* ./r1 was asked for in directory d after r1 was, and x/../bad after bad:
\* d/r1 and d/bad were in the cache, and x/../bad had not been asked for
C22_Witness ==
    /\ last.op = "get_resource"
    /\ last.directory = T_d
    /\ last.name = T_x_up_bad
    /\ T_x_up_bad \notin DOMAIN last.before.py
    /\ T_d_bad \in DOMAIN last.before.cache
    /\ T_dot_r1 \notin DOMAIN last.before.py
    /\ DOMAIN last.after.cache = {T_d_bad, T_d_r1}
    /\ EntryOf(last.before, T_d_r1).file = "r1"
    /\ last.res = NoRes

----------------------------------------------------------------------------
(* C23 *)

\* the context of walk r when the turn of the loop that is due is done,
\* before any call returns
ContextAfterTurn(r) ==
    Visit(r, ResolveImport(rcache, Head(Top(r.stack).imps), Top(r.stack).f, r.ctx).res).ctx

\* the step ends the variable pass of get_keywords_from and begins its
\* keyword pass
PassTurns ==
    /\ run.op = "walk"
    /\ run.pass = "var"
    /\ run'.op = "walk"
    /\ run'.pass = "kw"

\* C23: allow_going_through_resources_again empties parsed and leaves the
\* variables of the context as they are, names, values and provenance: the
\* keyword pass begins with nothing parsed and with the environment the
\* variable pass ended with; and in the keyword pass every resource that
\* was gone into in the variable pass is gone into again, once.
C23_AllowRevisitKeepsVariables ==
    [][/\ PassTurns =>
              /\ run'.ctx.parsed = {}
              /\ run'.ctx.vars = ContextAfterTurn(run).vars
              /\ run'.ctx.passes = <<ContextAfterTurn(run).trace>>
       /\ last'.op = "keywords" =>
              /\ Len(last'.passes) = 2
              /\ \A res \in Range(last'.passes[1]) :
                     Cardinality({i \in 1..Len(last'.passes[2]) :
                                     last'.passes[2][i] = res}) = 1]_vars

\* the keywords of the suite were asked for; it imports r1 and r2, and both
\* passes went into both
C23_Witness ==
    /\ last.op = "keywords"
    /\ last.df = "suite"
    /\ Len(last.passes[1]) = 2
    /\ Range(last.passes[2]) = Range(last.passes[1])
    /\ VarKey(T_X) \in DOMAIN last.vars.vals

----------------------------------------------------------------------------
(* C24 *)

\* the value the variable pass for datafile f binds a name to, the name
\* itself when it binds it nowhere: the variable pass goes through f and
\* the resources that can be reached from it by imports with literal
\* names, and no name is bound in two tables of these worlds
BoundTo(f, name) ==
    LET Values == UNION {{File(g).vartable[i].value :
                             i \in {j \in 1..Len(File(g).vartable) :
                                       File(g).vartable[j].name = name}} :
                            g \in WithReachable(f)}
    IN  IF Values = {} THEN name ELSE CHOOSE v \in Values : TRUE

\* C24: in get_keywords_from the variable pass is over before a name of a
\* Library or Resource import is replaced for the keywords: all the while
\* the keywords are collected the environment binds every variable of the
\* tables and variable files the variable pass went through, and the
\* libraries and resources whose keywords are returned are the ones the
\* import names stand for with those bindings, also when the binding is
\* made by a resource or variable file that is imported after the import.
C24_VariablesBeforeKeywords ==
    /\ run.op = "walk" /\ run.pass = "kw" =>
           /\ Len(run.ctx.passes) = 1
           /\ Range(run.ctx.passes[1]) = Reachable(run.df)
           /\ \A g \in WithReachable(run.df) :
                  \A i \in 1..Len(File(g).vartable) :
                      Binding(run.ctx.vars, VarKey(File(g).vartable[i].name)).value
                          = File(g).vartable[i].value
           /\ \A imp \in Loading(run.df) :
                  Binding(run.ctx.vars, VarKey(T_X)).value = T_3
    /\ last.op = "keywords" =>
           /\ \A imp \in Range(CollectImportOfType(last.df, "Library")) :
                  Segment(last, imp.line)
                      = GetLibraryKeywords(BoundTo(last.df, imp.name), <<>>)
           /\ \A imp \in Range(CollectImportOfType(last.df, "Resource")) :
                  BoundTo(last.df, imp.name) = T_r2 =>
                      /\ [path |-> T_lib_r2, file |-> "r2"] \in Range(last.passes[2])
                      /\ \E i \in 1..Len(last.result) : last.result[i].name = T_K2

\* the keywords of the suite were asked for: its first import is Library
\* ${P}, its second Resource ${Q}, and r1, imported after them, binds ${P}
\* to L1 and ${Q} to r2: the keywords of L1 and of r2 are returned
C24_Witness ==
    /\ last.op = "keywords"
    /\ last.df = "suite"
    /\ File("suite").imports[1].name = T_P
    /\ File("suite").imports[2].name = T_Q
    /\ \E i \in 1..Len(last.result) :
           last.result[i].name = T_LK /\ last.result[i].source = T_L1
    /\ \E i \in 1..Len(last.result) : last.result[i].name = T_K2
    /\ Binding(last.vars, VarKey(T_X)).value = T_3

----------------------------------------------------------------------------
(* C25 *)

\* the variable suggestions of an answer that have the key of a name
SuggestedAs(q, name) == {s \in VariablesOf(q.result) : VarKey(s.name) = VarKey(name)}

\* C25: in the variable suggestions, for a text that looks like a variable
\* and for the empty text, every variable at the cursor is in the
\* environment with its value and the provenance Argument, in place of the
\* value and the provenance a variable of that name had from the graph or
\* from the built-in ones.
C25_LocalsReplace ==
    last.op = "suggest" /\ last.start \in {<<>>, <<"$">>, <<"$", "{">>} =>
        \A i \in 1..Len(last.locals) :
            /\ Cardinality(SuggestedAs(last, last.locals[i].name)) = 1
            /\ \A s \in SuggestedAs(last, last.locals[i].name) :
                   /\ s.value = last.locals[i].value
                   /\ s.source = T_Argument

\* what holds of the variables at the cursor whatever their spelling: the
\* value is theirs, and the provenance is Argument when no variable of the
\* graph or built-in one has the name in another spelling
C25_LocalsReplaceAsWritten ==
    last.op = "suggest" /\ last.start \in {<<>>, <<"$">>, <<"$", "{">>} =>
        \A i \in 1..Len(last.locals) :
            /\ Cardinality(SuggestedAs(last, last.locals[i].name)) = 1
            /\ \A s \in SuggestedAs(last, last.locals[i].name) :
                   /\ s.value = last.locals[i].value
                   /\ s.name = last.locals[i].name => s.source = T_Argument

\* ${x} is a variable at the cursor in the suite, whose table binds ${X}
C25_Respelled ==
    /\ last.op = "suggest"
    /\ last.df = "suite"
    /\ last.start = <<"$">>
    /\ last.locals = <<Var(T_x, T_3)>>
    /\ \E s \in SuggestedAs(last, T_x) : s.value = T_3 /\ s.source = T_d_suite

\* ${X} is a variable at the cursor in the suite, whose table binds ${X}
C25_SameSpelling ==
    /\ last.op = "suggest"
    /\ last.df = "suite"
    /\ last.start = <<"$">>
    /\ last.locals = <<Var(T_X, T_3)>>
    /\ \E s \in SuggestedAs(last, T_X) : s.value = T_3 /\ s.source = T_Argument

----------------------------------------------------------------------------
(* C26 *)

\* what a context that begins with the built-in variables alone yields for
\* datafile f: the built-in ones, and the entries of the tables of f and
\* of the resources that can be reached from it, each with its table's
\* source; no name is bound twice in these worlds
FreshVariables(f) ==
    {[name |-> GlobalVariables[i].name, value |-> GlobalVariables[i].value,
      source |-> T_Global] : i \in 1..Len(GlobalVariables)}
        \cup UNION {{[name |-> File(g).vartable[i].name,
                      value |-> File(g).vartable[i].value,
                      source |-> File(g).source] : i \in 1..Len(File(g).vartable)} :
                       g \in WithReachable(f)}

\* a trace of a context that began with nothing parsed: every resource that
\* can be reached from f, once
FreshTrace(f, trace) == NoDuplicates(trace) /\ Range(trace) = Reachable(f)

\* C26: no query sees what a query before it bound or went through:
\* whatever was asked before, of the retriever or for suggestions with
\* variables at the cursor, get_variables_from and get_keywords_from answer
\* with the environment a context with only the built-in variables and
\* nothing parsed gives for the datafile, get_resources_from with all the
\* resources that can be reached from it, and so the same each time.
C26_QueriesShareNothing ==
    /\ run.op = "walk" /\ run.pass = "var" =>
           /\ run.ctx.passes = <<>>
           /\ VariableInfos(run.ctx.vars) \subseteq FreshVariables(run.df)
    /\ last.op = "variables" =>
           /\ VariableInfos(last.vars) = FreshVariables(last.df)
           /\ Len(last.passes) = 1
           /\ FreshTrace(last.df, last.passes[1])
    /\ last.op = "keywords" =>
           /\ VariableInfos(last.vars) = FreshVariables(last.df)
           /\ Len(last.passes) = 2
           /\ FreshTrace(last.df, last.passes[1])
           /\ FreshTrace(last.df, last.passes[2])
           /\ {last.result[i].name : i \in 1..Len(last.result)}
                  = UNION {Range(File(g).keywords) : g \in WithReachable(last.df)}
    /\ last.op = "resources" =>
           Range(last.result) = Reachable(last.df)

\* the variables of r1 are asked for when the resource cache holds r1: a
\* query for the suite, which binds ${X}, or suggestions for it came before
C26_Witness ==
    /\ last.op = "variables"
    /\ last.df = "r1"
    /\ T_d_r1 \in DOMAIN rcache.cache
    /\ VarKey(T_X) \notin DOMAIN last.vars.vals
    /\ VarKey(T_P) \in DOMAIN last.vars.vals

----------------------------------------------------------------------------
(* C27 *)

\* C27: the resource cache only grows, also when the statements of two
\* calls of _get_resource interleave: no step replaces or removes the
\* entry of a normalized path, and the calls that have returned for paths
\* that normalize to one path have returned the same resource object.
C27_AppendOnlyInterleaved ==
    /\ [][\A p \in DOMAIN rcache.cache :
              p \in DOMAIN rcache'.cache /\ rcache'.cache[p] = rcache.cache[p]]_vars
    /\ [](run.op = "threads" =>
              \A t, u \in Threads :
                  /\ run.th[t].pc = "idle" /\ run.th[u].pc = "idle"
                  /\ run.th[t].path # <<>> /\ run.th[u].path # <<>>
                  /\ Normpath(run.th[t].path) = Normpath(run.th[u].path)
                  => run.th[t].res = run.th[u].res)

\* both threads have returned from calls for d/r1 and d/./r1 with
\* resource objects of different parses
C27_TwoObjects ==
    /\ run.op = "threads"
    /\ run.th["a"].pc = "idle"
    /\ run.th["b"].pc = "idle"
    /\ run.th["a"].path = T_d_r1
    /\ run.th["b"].path # T_d_r1
    /\ run.th["a"].res # NoRes
    /\ run.th["b"].res # NoRes
    /\ run.th["a"].res # run.th["b"].res


----------------------------------------------------------------------------
(* C28 *)

\* the place in ls of the first listener that raises when called, 0 when
\* none of them does
FirstRaising(ls, raises) ==
    IF \E i \in 1..Len(ls) : raises[ls[i]] # "none"
    THEN CHOOSE i \in 1..Len(ls) :
             /\ raises[ls[i]] # "none"
             /\ \A j \in 1..(i - 1) : raises[ls[j]] = "none"
    ELSE 0

\* the listeners of ls that publish has to call: all of them, or those up
\* to the first that raises
Notified(ls, raises) ==
    IF FirstRaising(ls, raises) = 0 THEN Len(ls) ELSE FirstRaising(ls, raises)

\* C28: publish calls the listeners of the message's topic in the order of
\* their subscription; when one of them raises, the listeners after it do
\* not get the message, the caller of publish sees no exception, and a
\* RideLogException of level ERROR that carries what was raised is
\* published instead.
C28_ListenerErrorIsLogged ==
    last.op = "publish" =>
        /\ Len(last.got) >= Notified(run.subs[last.msg.topic], run.raises)
        /\ \A i \in 1..Notified(run.subs[last.msg.topic], run.raises) :
               last.got[i] = <<run.subs[last.msg.topic][i], last.msg>>
        /\ \A i \in (Notified(run.subs[last.msg.topic], run.raises) + 1)..Len(last.got) :
               last.got[i][2] # last.msg
        /\ last.raised.type = "none"
        /\ IF FirstRaising(run.subs[last.msg.topic], run.raises) = 0
           THEN last.sent = <<last.msg>>
           ELSE /\ Len(last.sent) = 2
                /\ last.sent[2].topic = "ride.log.exception"
                /\ last.sent[2].level = "ERROR"
                /\ last.sent[2].exception.text =
                       run.subs[last.msg.topic][
                           FirstRaising(run.subs[last.msg.topic], run.raises)]

\* the same without the caller's view, for the raises that are Exceptions:
\* the listeners are called in order up to the one that raises, and the
\* RideLogException of level ERROR is handed to the publisher
C28_ExceptionIsLogged ==
    last.op = "publish" =>
        /\ Len(last.got) >= Notified(run.subs[last.msg.topic], run.raises)
        /\ \A i \in 1..Notified(run.subs[last.msg.topic], run.raises) :
               last.got[i] = <<run.subs[last.msg.topic][i], last.msg>>
        /\ \A i \in (Notified(run.subs[last.msg.topic], run.raises) + 1)..Len(last.got) :
               last.got[i][2] # last.msg
        /\ \/ FirstRaising(run.subs[last.msg.topic], run.raises) = 0
           \/ run.raises[run.subs[last.msg.topic][
                             FirstRaising(run.subs[last.msg.topic], run.raises)]]
                  # "Exception"
           \/ /\ Len(last.sent) = 2
              /\ last.sent[2].topic = "ride.log.exception"
              /\ last.sent[2].level = "ERROR"
              /\ last.sent[2].exception =
                     [type |-> "Exception",
                      text |-> run.subs[last.msg.topic][
                                   FirstRaising(run.subs[last.msg.topic], run.raises)]]

\* l1 raised an Exception on a saved message, and l2, which listens to the
\* log exceptions, raised on the RideLogException published for it: the
\* caller of publish got l2's exception
C28_Propagated ==
    /\ last.op = "publish"
    /\ last.msg.topic = "ride.saved"
    /\ run.subs["ride.saved"] = <<"l1", "l3">>
    /\ run.subs["ride.log.exception"] = <<"l2">>
    /\ run.raises = [l \in Listeners |-> IF l = "l3" THEN "none" ELSE "Exception"]
    /\ Len(last.sent) = 2
    /\ last.sent[2].level = "ERROR"
    /\ last.got = <<<<"l1", last.msg>>, <<"l2", last.sent[2]>>>>
    /\ last.raised = [type |-> "Exception", text |-> "l2"]

====
